---- MODULE Spec2Model ----
(***************************************************************************)
(* ButceTakip: the budget ingestion-and-reconciliation engine.             *)
(*                                                                         *)
(* The persistent state is the four tables BudgetItem, Scenario, PlanEntry *)
(* and Expense (app/models.py).  The operations are the importer           *)
(* (app/services/importer.py), the scenario / plan / expense / budget item *)
(* routers, the aggregators (app/services/analytics.py) and the cleanup    *)
(* with its resequencer (app/services/cleanup.py).                         *)
(*                                                                         *)
(* Conventions                                                             *)
(*  - A text cell is a TLA+ string; "" stands for both None and the empty  *)
(*    string, which the code tells apart nowhere in the modelled paths     *)
(*    (`if name`, `if not name`, `or`, `not in (None, "")`).               *)
(*  - A float amount is modelled by an integer (all amounts used are       *)
(*    integral), an expense_date by its (year, month).                     *)
(*  - A row id is allocated as max(id)+1, SQLite's rule for an             *)
(*    INTEGER PRIMARY KEY (the default database_url is sqlite).            *)
(*  - Columns no modelled operation reads (updated_at, vendor, quantity,   *)
(*    unit_price, department, ...) are left out of the rows.               *)
(***************************************************************************)
EXTENDS Integers, Sequences, FiniteSets, TLC

VARIABLES
    budget_items,   \* table budget_items: rows [id, code, name, map_attribute, created_at]
    scenarios,      \* table scenarios: rows [id, name, year]
    plan_entries,   \* table plan_entries: rows [id, year, month, amount, scenario_id, budget_item_id]
    expenses,       \* table expenses: rows [id, budget_item_id, scenario_id, year, month, amount, description, status, is_out_of_budget]
    run,            \* the import call in progress: its kind, position, ImportSummary and outcome
    ret,            \* what the last completed resolver / router / cleanup call returned
    purchase_form_status_ext
                    \* table of PurchaseFormStatusExt: rows [budget_code, year, month, scenario_id, department, is_form_prepared]

vars == <<budget_items, scenarios, plan_entries, expenses, run, ret, purchase_form_status_ext>>

(***************************************************************************)
(* Bounds of the model.                                                    *)
(***************************************************************************)
\* Records in one uploaded file.
MaxRows == 2
\* PlanEntry plus Expense rows the tables may hold.
MaxEntries == 2
\* BudgetItem rows the table may hold.
MaxItems == 2
\* Scenario rows the table may hold.
MaxScenarios == 3
\* Largest row id the routers hand out: deleting rows below the largest id
\* and inserting again would otherwise let the ids grow without end.
MaxId == 3

(***************************************************************************)
(* Values.                                                                 *)
(***************************************************************************)
\* datetime.utcnow() as seen by TimestampMixin.created_at.  The default is
\* evaluated when the object is built, not when it is committed, and the
\* wall clock is not monotonic, so created_at need not follow the id order.
Times == {1, 2}

Truthy(text) == text # ""

Max(S) == CHOOSE x \in S : \A y \in S : y <= x

\* The id the database gives the next inserted row of a table.
NextId(rows) == IF rows = {} THEN 1 ELSE Max({r.id : r \in rows}) + 1

RECURSIVE SumOf(_, _)
\* sum over a finite set of rows of the integer f[row]
SumOf(f, S) ==
    IF S = {} THEN 0
    ELSE LET x == CHOOSE y \in S : TRUE IN f[x] + SumOf(f, S \ {x})

\* int(text) of Python on the texts the model feeds it: a value, or ValueError.
IntTexts == {"1", "2", "3", "4", "13", "2024", "2025"}
IntOf(text) ==
    CASE text = "1" -> 1
      [] text = "2" -> 2
      [] text = "3" -> 3
      [] text = "4" -> 4
      [] text = "13" -> 13
      [] text = "2024" -> 2024
      [] text = "2025" -> 2025

\* float(text) of Python on the texts the model feeds it: a value, or ValueError.
\* A leading minus sign parses: float("-5") is -5.0.
FloatTexts == {"0", "50", "100", "-5"}
FloatOf(text) ==
    CASE text = "0" -> 0
      [] text = "50" -> 50
      [] text = "100" -> 100
      [] text = "-5" -> 0 - 5

\* date.fromisoformat(text): a date, or ValueError.
DateTexts == {"2024-01-15", "2024-04-02", "2025-01-03"}
DateOf(text) ==
    CASE text = "2024-01-15" -> [year |-> 2024, month |-> 1]
      [] text = "2024-04-02" -> [year |-> 2024, month |-> 4]
      [] text = "2025-01-03" -> [year |-> 2025, month |-> 1]

\* f"Default {year}"
DefaultScenarioName(year) == "Default " \o ToString(year)

\* ExpenseStatus
RECORDED == "recorded"
CANCELLED == "cancelled"

(***************************************************************************)
(* _normalize_capex_opex on the texts the model feeds it.                  *)
(***************************************************************************)
NormalizeCapexOpex(text) ==
    IF ~Truthy(text) THEN ""
    ELSE IF text \in {"capex", "CAPEX", "Capex"} THEN "CAPEX"
    ELSE IF text \in {"opex", "OPEX", "Opex"} THEN "OPEX"
    ELSE text

(***************************************************************************)
(* _ensure_budget_item.  BudgetItem (models.py) has the columns id, code,  *)
(* name, description, map_attribute, map_category and the timestamps: it   *)
(* has no capex_opex and no asset_type.  Reading item.capex_opex or        *)
(* item.asset_type on a found item therefore raises AttributeError, which  *)
(* happens as soon as the input is truthy (`if capex_opex and              *)
(* item.capex_opex != ...`); the changes made to name and map_attribute    *)
(* before it are never committed.  On creation the two keyword arguments   *)
(* are not fields of the table model and are dropped.                      *)
(* The outcome: status, the committed table, and the id of the item.       *)
(***************************************************************************)
\* A variant of EnsureBudgetItem that writes the map attribute through even
\* when the input is empty.
EnsureBudgetItemOverwrite(items, code, name, map_attribute, capex_opex, asset_type, now) ==
    LET found == {i \in items : i.code = code} IN
    IF found # {}
    THEN LET item == CHOOSE i \in found : TRUE
             named == IF Truthy(name) /\ item.name # name
                      THEN [item EXCEPT !.name = name] ELSE item
             mapped == IF named.map_attribute # map_attribute
                       THEN [named EXCEPT !.map_attribute = map_attribute] ELSE named
         IN  IF Truthy(capex_opex) \/ Truthy(asset_type)
             THEN [status |-> "AttributeError", items |-> items, id |-> 0]
             ELSE [status |-> "ok", items |-> (items \ {item}) \cup {mapped}, id |-> item.id]
    ELSE IF ~Truthy(name)
         THEN [status |-> "HTTPException", items |-> items, id |-> 0]
         ELSE LET new == [id |-> NextId(items), code |-> code, name |-> name,
                          map_attribute |-> map_attribute, created_at |-> now]
              IN  [status |-> "ok", items |-> items \cup {new}, id |-> new.id]

EnsureBudgetItem(items, code, name, map_attribute, capex_opex, asset_type, now) ==
    LET found == {i \in items : i.code = code} IN
    IF found # {}
    THEN LET item == CHOOSE i \in found : TRUE
             named == IF Truthy(name) /\ item.name # name
                      THEN [item EXCEPT !.name = name] ELSE item
             mapped == IF Truthy(map_attribute) /\ named.map_attribute # map_attribute
                       THEN [named EXCEPT !.map_attribute = map_attribute] ELSE named
         IN  IF Truthy(capex_opex) \/ Truthy(asset_type)
             THEN [status |-> "AttributeError", items |-> items, id |-> 0]
             ELSE [status |-> "ok", items |-> (items \ {item}) \cup {mapped}, id |-> item.id]
    ELSE IF ~Truthy(name)
         THEN [status |-> "HTTPException", items |-> items, id |-> 0]
         ELSE LET new == [id |-> NextId(items), code |-> code, name |-> name,
                          map_attribute |-> map_attribute, created_at |-> now]
              IN  [status |-> "ok", items |-> items \cup {new}, id |-> new.id]

(***************************************************************************)
(* _get_or_create_scenario.  `.first()` on a query without ORDER BY        *)
(* returns whichever matching row the database yields first: any of them.  *)
(* Without a name the query filters on the year alone.                     *)
(* The set of possible outcomes: the committed table and the scenario id.  *)
(***************************************************************************)
GetOrCreateScenario(scs, scenario_name, year) ==
    LET found == IF Truthy(scenario_name)
                 THEN {s \in scs : s.name = scenario_name /\ s.year = year}
                 ELSE {s \in scs : s.year = year}
        new == [id |-> NextId(scs),
                name |-> IF Truthy(scenario_name) THEN scenario_name
                         ELSE DefaultScenarioName(year),
                year |-> year]
    IN  IF found # {}
        THEN {[scenarios |-> scs, id |-> s.id] : s \in found}
        ELSE {[scenarios |-> scs \cup {new}, id |-> new.id]}

(***************************************************************************)
(* The records an upload can hold.  One shape serves the CSV rows          *)
(* (csv.DictReader: every cell a text), the row-layout XLSX rows and the   *)
(* entries of a JSON plan list; every column is present.                   *)
(***************************************************************************)
RowCodes == {"A"}
RowNames == {"", "N"}
RowCapex == {"", "capex"}
RowScenarios == {"", "S"}
RowYears == {"2024", "x"}
RowAmounts == {"100", "-5", "x"}

PlanRows ==
    [type : {"plan"}, budget_code : RowCodes, budget_name : RowNames,
     map_attribute : {""}, capex_opex : RowCapex, scenario : RowScenarios,
     year : RowYears, month : {"1"}, amount : RowAmounts,
     date : {""}, out_of_budget : {""}, description : {""}]

ExpenseRows ==
    [type : {"expense"}, budget_code : {"A"}, budget_name : RowNames,
     map_attribute : {""}, capex_opex : {""}, scenario : {""},
     year : {"2024"}, month : {""}, amount : {"50", "-5", "x"},
     date : {"2024-01-15"}, out_of_budget : {"false", "true"}, description : {""}]

OtherRows ==
    [type : {"transfer"}, budget_code : {"A"}, budget_name : {"N"},
     map_attribute : {""}, capex_opex : {""}, scenario : {""},
     year : {"2024"}, month : {"1"}, amount : {"100"},
     date : {""}, out_of_budget : {""}, description : {""}]

Rows == PlanRows \cup ExpenseRows \cup OtherRows

(***************************************************************************)
(* What processing one record leaves behind: whether the exception left    *)
(* the import function ("raised") or not ("ok"), by how much each counter  *)
(* of the ImportSummary moves, and the committed tables.                   *)
(***************************************************************************)
Effect(status, plans_n, expenses_n, skipped_n, items, scs, plans, exps) ==
    [status |-> status, imported_plans |-> plans_n, imported_expenses |-> expenses_n,
     skipped_rows |-> skipped_n, budget_items |-> items, scenarios |-> scs,
     plan_entries |-> plans, expenses |-> exps]

NewPlan(plans, year, month, amount, scenario_id, budget_item_id) ==
    [id |-> NextId(plans), year |-> year, month |-> month, amount |-> amount,
     scenario_id |-> scenario_id, budget_item_id |-> budget_item_id]

NewExpense(exps, budget_item_id, scenario_id, day, amount, description, status, is_out_of_budget) ==
    [id |-> NextId(exps), budget_item_id |-> budget_item_id, scenario_id |-> scenario_id,
     year |-> day.year, month |-> day.month, amount |-> amount,
     description |-> description, status |-> status,
     is_out_of_budget |-> is_out_of_budget]

(***************************************************************************)
(* The body of import_csv's loop for one row.  The resolvers commit, so    *)
(* the session.rollback() of the except branch undoes nothing they wrote.  *)
(* PlanEntry and Expense are table models: their constructors validate     *)
(* nothing, so any month and any amount is stored.                         *)
(***************************************************************************)
\* A variant of CsvRowEffects that leaves a row of another type uncounted.
CsvRowEffectsUncounted(row, now) ==
    LET capex == NormalizeCapexOpex(row.capex_opex)
        e == EnsureBudgetItem(budget_items, row.budget_code, row.budget_name,
                              row.map_attribute, capex, "", now)
        Skip(items, scs) == Effect("ok", 0, 0, 1, items, scs, plan_entries, expenses)
    IN  IF row.type \notin {"plan", "expense"}
        THEN {Effect("ok", 0, 0, 0, budget_items, scenarios, plan_entries, expenses)}
        ELSE IF e.status # "ok"
        THEN {Skip(budget_items, scenarios)}
        ELSE IF row.year \notin IntTexts
        THEN {Skip(e.items, scenarios)}
        ELSE { IF row.type = "plan"
               THEN IF row.month \in IntTexts /\ row.amount \in FloatTexts
                    THEN Effect("ok", 1, 0, 0, e.items, s.scenarios,
                                plan_entries \cup {NewPlan(plan_entries, IntOf(row.year),
                                    IntOf(row.month), FloatOf(row.amount), s.id, e.id)},
                                expenses)
                    ELSE Skip(e.items, s.scenarios)
               ELSE IF row.date \in DateTexts /\ row.amount \in FloatTexts
                    THEN Effect("ok", 0, 1, 0, e.items, s.scenarios, plan_entries,
                                expenses \cup {NewExpense(expenses, e.id, s.id, DateOf(row.date),
                                    FloatOf(row.amount), row.description, RECORDED,
                                    row.out_of_budget = "true")})
                    ELSE Skip(e.items, s.scenarios)
             : s \in GetOrCreateScenario(scenarios, row.scenario, IntOf(row.year)) }

CsvRowEffects(row, now) ==
    LET capex == NormalizeCapexOpex(row.capex_opex)
        e == EnsureBudgetItem(budget_items, row.budget_code, row.budget_name,
                              row.map_attribute, capex, "", now)
        Skip(items, scs) == Effect("ok", 0, 0, 1, items, scs, plan_entries, expenses)
    IN  IF row.type \notin {"plan", "expense"}
        THEN {Skip(budget_items, scenarios)}
        ELSE IF e.status # "ok"
        THEN {Skip(budget_items, scenarios)}
        ELSE IF row.year \notin IntTexts
        THEN {Skip(e.items, scenarios)}
        ELSE { IF row.type = "plan"
               THEN IF row.month \in IntTexts /\ row.amount \in FloatTexts
                    THEN Effect("ok", 1, 0, 0, e.items, s.scenarios,
                                plan_entries \cup {NewPlan(plan_entries, IntOf(row.year),
                                    IntOf(row.month), FloatOf(row.amount), s.id, e.id)},
                                expenses)
                    ELSE Skip(e.items, s.scenarios)
               ELSE IF row.date \in DateTexts /\ row.amount \in FloatTexts
                    THEN Effect("ok", 0, 1, 0, e.items, s.scenarios, plan_entries,
                                expenses \cup {NewExpense(expenses, e.id, s.id, DateOf(row.date),
                                    FloatOf(row.amount), row.description, RECORDED,
                                    row.out_of_budget = "true")})
                    ELSE Skip(e.items, s.scenarios)
             : s \in GetOrCreateScenario(scenarios, row.scenario, IntOf(row.year)) }

(***************************************************************************)
(* The body of import_xlsx's row-layout loop for one row.  The code, the   *)
(* year and, for a plan, the month and the amount are coerced before the   *)
(* resolvers run; for an expense the amount and the date are coerced after *)
(* them.  A numeric cell and the text of the same number coerce alike.     *)
(***************************************************************************)
XlsxRowEffects(row, now) ==
    LET entry_type == IF Truthy(row.type) THEN row.type ELSE "plan"
        capex == NormalizeCapexOpex(row.capex_opex)
        e == EnsureBudgetItem(budget_items, row.budget_code, row.budget_name,
                              row.map_attribute, capex, "", now)
        Skip(items, scs) == Effect("ok", 0, 0, 1, items, scs, plan_entries, expenses)
    IN  IF ~Truthy(row.budget_code) \/ row.year \notin IntTexts
        THEN {Skip(budget_items, scenarios)}
        ELSE IF entry_type = "plan"
        THEN IF row.month \notin IntTexts \/ row.amount \notin FloatTexts \/ e.status # "ok"
             THEN {Skip(budget_items, scenarios)}
             ELSE { Effect("ok", 1, 0, 0, e.items, s.scenarios,
                           plan_entries \cup {NewPlan(plan_entries, IntOf(row.year),
                               IntOf(row.month), FloatOf(row.amount), s.id, e.id)},
                           expenses)
                    : s \in GetOrCreateScenario(scenarios, row.scenario, IntOf(row.year)) }
        ELSE IF entry_type = "expense"
        THEN IF e.status # "ok"
             THEN {Skip(budget_items, scenarios)}
             ELSE { IF row.amount \in FloatTexts /\ row.date \in DateTexts
                    THEN Effect("ok", 0, 1, 0, e.items, s.scenarios, plan_entries,
                                expenses \cup {NewExpense(expenses, e.id, s.id, DateOf(row.date),
                                    FloatOf(row.amount), row.description, RECORDED,
                                    row.out_of_budget = "true")})
                    ELSE Skip(e.items, s.scenarios)
                    : s \in GetOrCreateScenario(scenarios, row.scenario, IntOf(row.year)) }
        ELSE {Skip(budget_items, scenarios)}

(***************************************************************************)
(* The body of _import_plan_list's loop for one entry: every entry is a    *)
(* plan, whatever its type says, and a failed entry is rolled back without *)
(* being counted (the function returns the imported count alone).          *)
(***************************************************************************)
PlanListEntryEffects(entry, now) ==
    LET capex == NormalizeCapexOpex(entry.capex_opex)
        e == EnsureBudgetItem(budget_items, entry.budget_code, entry.budget_name,
                              entry.map_attribute, capex, "", now)
        Fail(items, scs) == Effect("ok", 0, 0, 0, items, scs, plan_entries, expenses)
    IN  IF e.status # "ok"
        THEN {Fail(budget_items, scenarios)}
        ELSE IF entry.year \notin IntTexts
        THEN {Fail(e.items, scenarios)}
        ELSE { IF entry.month \in IntTexts /\ entry.amount \in FloatTexts
               THEN Effect("ok", 1, 0, 0, e.items, s.scenarios,
                           plan_entries \cup {NewPlan(plan_entries, IntOf(entry.year),
                               IntOf(entry.month), FloatOf(entry.amount), s.id, e.id)},
                           expenses)
               ELSE Fail(e.items, s.scenarios)
             : s \in GetOrCreateScenario(scenarios, entry.scenario, IntOf(entry.year)) }

(***************************************************************************)
(* _import_year_month_structure.  The document's year and scenario are     *)
(* resolved once, before the loop; each item is then resolved and each of  *)
(* its months stored and committed in turn.  Nothing in the function       *)
(* catches an exception.                                                   *)
(***************************************************************************)
TreeHeaders == [year : {"2024", "x"}, scenario : {"", "S"}]

TreePlans ==
    { <<>>,
      <<[month |-> "1", amount |-> "100"]>>,
      <<[month |-> "1", amount |-> "x"]>>,
      <<[month |-> "1", amount |-> "100"], [month |-> "2", amount |-> "x"]>> }

\* The keys of the document's "items" object, in its order: the keys of a JSON
\* object are distinct.
TreeCodes == <<"A", "B", "C", "D">>

TreeItems ==
    [budget_code : {TreeCodes[k] : k \in DOMAIN TreeCodes}, budget_name : RowNames,
     map_attribute : {""}, capex_opex : RowCapex, plan : TreePlans]

RECURSIVE TreeMonths(_, _, _, _, _)
\* The inner loop over months.get("plan", {}).items(), in the dict's order.
TreeMonths(plan, plans, year, scenario_id, item_id) ==
    IF plan = <<>>
    THEN [status |-> "ok", plan_entries |-> plans, imported |-> 0]
    ELSE LET m == Head(plan) IN
         IF m.month \notin IntTexts \/ m.amount \notin FloatTexts
         THEN [status |-> "raised", plan_entries |-> plans, imported |-> 0]
         ELSE LET rest == TreeMonths(Tail(plan),
                              plans \cup {NewPlan(plans, year, IntOf(m.month),
                                                  FloatOf(m.amount), scenario_id, item_id)},
                              year, scenario_id, item_id)
              IN  [rest EXCEPT !.imported = @ + 1]

\* The body of the outer loop for one item of the document.
TreeItemEffects(item, year, scenario_id, now) ==
    LET capex == NormalizeCapexOpex(item.capex_opex)
        e == EnsureBudgetItem(budget_items, item.budget_code, item.budget_name,
                              item.map_attribute, capex, "", now)
        m == TreeMonths(item.plan, plan_entries, year, scenario_id, e.id)
    IN  IF e.status # "ok"
        THEN {Effect("raised", 0, 0, 0, budget_items, scenarios, plan_entries, expenses)}
        ELSE {Effect(m.status, m.imported, 0, 0, e.items, scenarios, m.plan_entries, expenses)}

(***************************************************************************)
(* _import_pivot_style_rows on a sheet whose header row holds "Row Labels" *)
(* and the month columns "Oca 24" and "Nis 24".  A cell is modelled by its *)
(* text; "0" is the numeric zero the loop passes over.  A row passed over  *)
(* (`continue`) moves no counter.  The call of _ensure_budget_item stands  *)
(* outside every try.                                                      *)
(***************************************************************************)
PivotMonthColumns == <<[month |-> 1, year |-> 2024], [month |-> 4, year |-> 2024]>>

PivotRows ==
    [name : {"Router (10 Adet)", "Genel Toplam"}, code : {""}, map_attribute : {""},
     capex_opex : RowCapex, scenario : {""}, type : {"", "expense"},
     cells : {<<"100", "">>, <<"x", "100">>, <<"0", "-5">>}]

\* _normalize_code on the texts the model feeds it.
NormalizeCode(text) ==
    CASE text = "a" -> "A"
      [] text = "Router (10 Adet)" -> "ROUTER_10_ADET"
      [] OTHER -> text

RECURSIVE PivotCells(_, _, _, _, _, _)
\* The loop over month_columns from column i on: the possible outcomes.
PivotCells(i, cells, scenario_name, item_id, scs, plans) ==
    IF i > Len(PivotMonthColumns)
    THEN {[scenarios |-> scs, plan_entries |-> plans, imported |-> 0]}
    ELSE IF i > Len(cells) \/ cells[i] \in {"", "0"} \/ cells[i] \notin FloatTexts
    THEN PivotCells(i + 1, cells, scenario_name, item_id, scs, plans)
    ELSE UNION { { [r EXCEPT !.imported = @ + 1]
                   : r \in PivotCells(i + 1, cells, scenario_name, item_id, s.scenarios,
                              plans \cup {NewPlan(plans, PivotMonthColumns[i].year,
                                  PivotMonthColumns[i].month, FloatOf(cells[i]), s.id, item_id)}) }
                 : s \in GetOrCreateScenario(scs, scenario_name, PivotMonthColumns[i].year) }

\* The body of the loop over data_rows for one row.
PivotRowEffects(row, now) ==
    LET code_value == IF Truthy(row.code) THEN row.code
                      ELSE IF Truthy(row.map_attribute) THEN row.map_attribute ELSE row.name
        entry_type == IF Truthy(row.type) THEN row.type ELSE "plan"
        e == EnsureBudgetItem(budget_items, NormalizeCode(code_value), row.name,
                              row.map_attribute, NormalizeCapexOpex(row.capex_opex), "", now)
        Pass == Effect("ok", 0, 0, 0, budget_items, scenarios, plan_entries, expenses)
    IN  IF ~Truthy(row.name) \/ row.name \in {"Genel Toplam", "Total"}
        THEN {Pass}
        ELSE IF entry_type \notin {"plan", "planlama", "budget"}
        THEN {Pass}
        ELSE IF e.status # "ok"
        THEN {Effect("raised", 0, 0, 0, budget_items, scenarios, plan_entries, expenses)}
        ELSE { Effect("ok", c.imported, 0, 0, e.items, c.scenarios, c.plan_entries, expenses)
               : c \in PivotCells(1, row.cells, row.scenario, e.id, scenarios, plan_entries) }

(***************************************************************************)
(* The import call in progress.  Each record is committed or rolled back   *)
(* on its own, so one record is one step and other requests may run        *)
(* between two records.                                                    *)
(***************************************************************************)
Idle ==
    [kind |-> "none", state |-> "idle", total |-> 0, pos |-> 0,
     imported_plans |-> 0, imported_expenses |-> 0, skipped_rows |-> 0,
     year |-> 0, scenario_id |-> 0]

Entries == Cardinality(plan_entries) + Cardinality(expenses)

\* The run after a record with the given effect.
Counted(r, eff) ==
    [r EXCEPT !.pos = @ + 1,
              !.imported_plans = @ + eff.imported_plans,
              !.imported_expenses = @ + eff.imported_expenses,
              !.skipped_rows = @ + eff.skipped_rows,
              !.state = IF eff.status = "raised" THEN "raised" ELSE @]

Apply(eff) ==
    /\ Cardinality(eff.plan_entries) + Cardinality(eff.expenses) <= MaxEntries
    /\ budget_items' = eff.budget_items
    /\ scenarios' = eff.scenarios
    /\ plan_entries' = eff.plan_entries
    /\ expenses' = eff.expenses
    /\ run' = Counted(run, eff)
    /\ UNCHANGED <<ret, purchase_form_status_ext>>

Running(kind) == run.state = "running" /\ run.kind = kind /\ run.pos < run.total

\* import_csv, import_xlsx (either layout) or import_json on a list is called
\* with a file of n records.
BeginImport(kind, n) ==
    /\ run.state # "running"
    /\ Entries < MaxEntries
    /\ run' = [Idle EXCEPT !.kind = kind, !.state = "running", !.total = n]
    /\ UNCHANGED <<budget_items, scenarios, plan_entries, expenses, ret, purchase_form_status_ext>>

\* import_json is called with a {year, scenario, items} document of n items.
BeginJsonTree(header, n) ==
    /\ run.state # "running"
    /\ Entries < MaxEntries
    /\ IF header.year \notin IntTexts
       THEN /\ run' = [Idle EXCEPT !.kind = "json_tree", !.state = "raised", !.total = n]
            /\ UNCHANGED scenarios
       ELSE \E s \in GetOrCreateScenario(scenarios, header.scenario, IntOf(header.year)) :
            /\ scenarios' = s.scenarios
            /\ run' = [Idle EXCEPT !.kind = "json_tree", !.state = "running", !.total = n,
                                   !.year = IntOf(header.year), !.scenario_id = s.id]
    /\ UNCHANGED <<budget_items, plan_entries, expenses, ret, purchase_form_status_ext>>

ImportCsvRow(row, now) ==
    /\ Running("csv")
    /\ \E eff \in CsvRowEffects(row, now) : Apply(eff)

ImportXlsxRow(row, now) ==
    /\ Running("xlsx")
    /\ \E eff \in XlsxRowEffects(row, now) : Apply(eff)

ImportPivotRow(row, now) ==
    /\ Running("xlsx_pivot")
    /\ \E eff \in PivotRowEffects(row, now) : Apply(eff)

ImportPlanListEntry(entry, now) ==
    /\ Running("json_list")
    /\ \E eff \in PlanListEntryEffects(entry, now) : Apply(eff)

ImportTreeItem(item, now) ==
    /\ Running("json_tree")
    /\ item.budget_code = TreeCodes[run.pos + 1]
    /\ \E eff \in TreeItemEffects(item, run.year, run.scenario_id, now) : Apply(eff)

\* The loop is over: the import function returns its ImportSummary.
ReturnSummary ==
    /\ run.state = "running" /\ run.pos = run.total
    /\ run' = [run EXCEPT !.state = "returned"]
    /\ UNCHANGED <<budget_items, scenarios, plan_entries, expenses, ret, purchase_form_status_ext>>

NoReturn == [op |-> "none", status |-> "none", id |-> 0, count |-> 0, args |-> <<>>]

Init ==
    /\ budget_items = {}
    /\ scenarios = {}
    /\ plan_entries = {}
    /\ expenses = {}
    /\ run = Idle
    /\ ret = NoReturn
    /\ purchase_form_status_ext = {}

ImportKinds == {"csv", "xlsx", "xlsx_pivot", "json_list"}

Next ==
    \/ \E kind \in ImportKinds, n \in 1..MaxRows : BeginImport(kind, n)
    \/ \E header \in TreeHeaders, n \in 1..MaxRows : BeginJsonTree(header, n)
    \/ \E row \in Rows, now \in Times : ImportCsvRow(row, now)
    \/ \E row \in Rows, now \in Times : ImportXlsxRow(row, now)
    \/ \E row \in PivotRows, now \in Times : ImportPivotRow(row, now)
    \/ \E entry \in PlanRows, now \in Times : ImportPlanListEntry(entry, now)
    \/ \E item \in TreeItems, now \in Times : ImportTreeItem(item, now)
    \/ ReturnSummary

Spec == Init /\ [][Next]_vars

(***************************************************************************)
(* The Budget Item Resolver called on its own.                             *)
(***************************************************************************)
ItemCodes == {"A", "B"}
ItemNames == {"", "N", "M"}
ItemMapAttributes == {"", "Hizmet"}
ItemCapexOpex == {"", "CAPEX"}
ItemAssetTypes == {"", "Laptop"}

\* One call of _ensure_budget_item; ret keeps its arguments and its outcome.
CallEnsureBudgetItem(code, name, map_attribute, capex_opex, asset_type, now) ==
    LET r == EnsureBudgetItem(budget_items, code, name, map_attribute,
                              capex_opex, asset_type, now)
    IN  /\ Cardinality(r.items) <= MaxItems
        /\ budget_items' = r.items
        /\ ret' = [op |-> "_ensure_budget_item", status |-> r.status, id |-> r.id,
                   count |-> 0,
                   args |-> <<code, name, map_attribute, capex_opex, asset_type>>]
        /\ UNCHANGED <<scenarios, plan_entries, expenses, run, purchase_form_status_ext>>

NextBudgetItem ==
    \E code \in ItemCodes, name \in ItemNames, map_attribute \in ItemMapAttributes,
       capex_opex \in ItemCapexOpex, asset_type \in ItemAssetTypes, now \in Times :
        CallEnsureBudgetItem(code, name, map_attribute, capex_opex, asset_type, now)

SpecBudgetItem == Init /\ [][NextBudgetItem]_vars

(***************************************************************************)
(* The Scenario Resolver called on its own, next to the scenario router.   *)
(***************************************************************************)
ScenarioYears == {2024, 2025}
ResolverScenarioNames == {"", "S"}
RouterScenarioNames == {"S", "Default 2024"}

\* One call of _get_or_create_scenario.
CallGetOrCreateScenario(scenario_name, year) ==
    \E s \in GetOrCreateScenario(scenarios, scenario_name, year) :
        /\ Cardinality(s.scenarios) <= MaxScenarios
        /\ scenarios' = s.scenarios
        /\ ret' = [op |-> "_get_or_create_scenario", status |-> "ok", id |-> s.id,
                   count |-> 0, args |-> <<scenario_name, ToString(year)>>]
        /\ UNCHANGED <<budget_items, plan_entries, expenses, run, purchase_form_status_ext>>

\* POST /scenarios: the row is inserted as given.
CreateScenario(name, year) ==
    LET scenario == [id |-> NextId(scenarios), name |-> name, year |-> year]
    IN  /\ Cardinality(scenarios) < MaxScenarios
        /\ scenarios' = scenarios \cup {scenario}
        /\ ret' = [op |-> "create_scenario", status |-> "ok", id |-> scenario.id,
                   count |-> 0, args |-> <<name, ToString(year)>>]
        /\ UNCHANGED <<budget_items, plan_entries, expenses, run, purchase_form_status_ext>>

\* PUT /scenarios/{scenario_id}: the fields that were sent are set.  A name of
\* "" and a year of 0 stand for a field left out of the request.
UpdateScenario(scenario_id, name, year) ==
    LET found == {s \in scenarios : s.id = scenario_id}
        args == <<ToString(scenario_id), name, ToString(year)>>
    IN  /\ IF found = {}
           THEN /\ ret' = [op |-> "update_scenario", status |-> "404", id |-> 0,
                           count |-> 0, args |-> args]
                /\ UNCHANGED scenarios
           ELSE LET scenario == CHOOSE s \in found : TRUE
                    updated == [scenario EXCEPT
                                  !.name = IF name = "" THEN @ ELSE name,
                                  !.year = IF year = 0 THEN @ ELSE year]
                IN  /\ scenarios' = (scenarios \ {scenario}) \cup {updated}
                    /\ ret' = [op |-> "update_scenario", status |-> "ok",
                               id |-> scenario_id, count |-> 0, args |-> args]
        /\ UNCHANGED <<budget_items, plan_entries, expenses, run, purchase_form_status_ext>>

NextScenario ==
    \/ \E scenario_name \in ResolverScenarioNames, year \in ScenarioYears :
           CallGetOrCreateScenario(scenario_name, year)
    \/ \E name \in RouterScenarioNames, year \in ScenarioYears :
           CreateScenario(name, year)
    \/ \E scenario_id \in 1..MaxScenarios, name \in RouterScenarioNames \cup {""},
          year \in ScenarioYears \cup {0} :
           UpdateScenario(scenario_id, name, year)

SpecScenario == Init /\ [][NextScenario]_vars

(***************************************************************************)
(* The aggregators (app/services/analytics.py).  They only read; they are  *)
(* operators over the PlanEntry and Expense tables.  A scenario_id,        *)
(* budget_item_id or month of None is an absent filter.                    *)
(***************************************************************************)
None == 0

\* defaultdict(float, map)[m]
Get(map, m) == IF m \in DOMAIN map THEN map[m] ELSE 0

RECURSIVE Sorted(_)
\* sorted(S) of a set of integers
Sorted(S) ==
    IF S = {} THEN <<>>
    ELSE LET least == CHOOSE x \in S : \A y \in S : x <= y
         IN  <<least>> \o Sorted(S \ {least})

\* A variant of PlanQuery that keeps one row (the latest) per budget item and
\* month before it sums.
PlanQueryDeduplicated(plans, year, scenario_id, budget_item_id, month) ==
    LET rows == {p \in plans :
                    /\ p.year = year
                    /\ scenario_id # None => p.scenario_id = scenario_id
                    /\ budget_item_id # None => p.budget_item_id = budget_item_id
                    /\ month # None => p.month = month}
        latest == {p \in rows : \A q \in rows :
                    (q.budget_item_id = p.budget_item_id /\ q.month = p.month) => q.id <= p.id}
    IN  [m \in {p.month : p \in latest} |->
            SumOf([p \in latest |-> p.amount], {p \in latest : p.month = m})]

\* select month, sum(amount) from plan_entries where ... group by month
PlanQuery(plans, year, scenario_id, budget_item_id, month) ==
    LET rows == {p \in plans :
                    /\ p.year = year
                    /\ scenario_id # None => p.scenario_id = scenario_id
                    /\ budget_item_id # None => p.budget_item_id = budget_item_id
                    /\ month # None => p.month = month}
    IN  [m \in {p.month : p \in rows} |->
            SumOf([p \in rows |-> p.amount], {p \in rows : p.month = m})]

\* select month(expense_date), sum(amount) from expenses where ... group by
\* month(expense_date); exps holds the expenses that pass the query's status
\* and is_out_of_budget filters
ExpenseQuery(exps, year, scenario_id, budget_item_id, month) ==
    LET rows == {e \in exps :
                    /\ e.year = year
                    /\ scenario_id # None => e.scenario_id = scenario_id
                    /\ budget_item_id # None => e.budget_item_id = budget_item_id
                    /\ month # None => e.month = month}
    IN  [m \in {e.month : e \in rows} |->
            SumOf([e \in rows |-> e.amount], {e \in rows : e.month = m})]

\* A variant of IsActual without the is_out_of_budget filter.
IsActualAnyBudget(e) == e.status = RECORDED

\* The expenses that count as actual spend.
IsActual(e) == e.status = RECORDED /\ e.is_out_of_budget = FALSE

\* A variant of IsOutOfBudget without the status filter.
IsOutOfBudgetAnyStatus(e) == e.is_out_of_budget = TRUE

\* The expenses of the out-of-budget figure.
IsOutOfBudget(e) == e.is_out_of_budget = TRUE /\ e.status = RECORDED

IsCancelled(e) == e.status = CANCELLED

\* compute_monthly_summary: the list of MonthlyAggregate, by month.
ComputeMonthlySummary(plans, exps, year, scenario_id, budget_item_id, month) ==
    LET plan_map == PlanQuery(plans, year, scenario_id, budget_item_id, month)
        expense_map == ExpenseQuery({e \in exps : IsActual(e)}, year, scenario_id,
                                   budget_item_id, month)
        months == IF month # None THEN {month}
                  ELSE DOMAIN plan_map \cup DOMAIN expense_map \cup 1..12
        order == Sorted(months)
    IN  [i \in 1..Len(order) |->
            [month |-> order[i], planned |-> Get(plan_map, order[i]),
             actual |-> Get(expense_map, order[i])]]

\* MonthlyAggregate.saving, QuarterlyAggregate.saving
Saving(item) == item.planned - item.actual

\* totalize
Totalize(monthly) ==
    <<SumOf([i \in DOMAIN monthly |-> monthly[i].planned], DOMAIN monthly),
      SumOf([i \in DOMAIN monthly |-> monthly[i].actual], DOMAIN monthly)>>

\* A variant of QuarterMonths whose quarters start one month early.
QuarterMonthsShifted(quarter) ==
    LET start_month == (quarter - 1) * 3 IN start_month..(start_month + 2)

\* The months of a quarter: range(start_month, start_month + 3).
QuarterMonths(quarter) ==
    LET start_month == (quarter - 1) * 3 + 1 IN start_month..(start_month + 2)

\* compute_quarterly_summary: the list of the four QuarterlyAggregate.
ComputeQuarterlySummary(plans, exps, year, scenario_id, budget_item_id) ==
    LET monthly == ComputeMonthlySummary(plans, exps, year, scenario_id, budget_item_id, None)
        listed == {monthly[i].month : i \in DOMAIN monthly}
        planned_map == [m \in listed |->
                          monthly[CHOOSE i \in DOMAIN monthly : monthly[i].month = m].planned]
        actual_map == [m \in listed |->
                          monthly[CHOOSE i \in DOMAIN monthly : monthly[i].month = m].actual]
        out_of_budget_map == ExpenseQuery({e \in exps : IsOutOfBudget(e)}, year, scenario_id,
                                         budget_item_id, None)
        cancelled_map == ExpenseQuery({e \in exps : IsCancelled(e)}, year, scenario_id,
                                     budget_item_id, None)
        Total(map, months) == SumOf([m \in months |-> Get(map, m)], months)
    IN  [quarter \in 1..4 |->
            [quarter |-> quarter,
             planned |-> Total(planned_map, QuarterMonths(quarter)),
             actual |-> Total(actual_map, QuarterMonths(quarter)),
             out_of_budget |-> Total(out_of_budget_map, QuarterMonths(quarter)),
             cancelled |-> Total(cancelled_map, QuarterMonths(quarter))]]

(***************************************************************************)
(* Reporting: the tables are filled by CSV imports and by POST /expenses,  *)
(* and the aggregators are read in every state.                            *)
(***************************************************************************)
ReportPlanRows ==
    [type : {"plan"}, budget_code : {"A"}, budget_name : {"N"},
     map_attribute : {""}, capex_opex : {""}, scenario : {""},
     year : {"2024"}, month : {"1"}, amount : {"100", "50"},
     date : {""}, out_of_budget : {""}, description : {""}]
    \cup
    [type : {"plan"}, budget_code : {"A"}, budget_name : {"N"},
     map_attribute : {""}, capex_opex : {""}, scenario : {""},
     year : {"2024"}, month : {"3", "13"}, amount : {"100"},
     date : {""}, out_of_budget : {""}, description : {""}]
    \cup
    [type : {"plan"}, budget_code : {"B"}, budget_name : {"N"},
     map_attribute : {""}, capex_opex : {""}, scenario : {""},
     year : {"2024", "2025"}, month : {"1"}, amount : {"100"},
     date : {""}, out_of_budget : {""}, description : {""}]

ReportExpenseRows ==
    [type : {"expense"}, budget_code : {"A"}, budget_name : {"N"},
     map_attribute : {""}, capex_opex : {""}, scenario : {""},
     year : {"2024"}, month : {""}, amount : {"50"},
     date : {"2024-01-15"}, out_of_budget : {"false", "true"}, description : {""}]

ReportRows == ReportPlanRows \cup ReportExpenseRows

ReportTimes == {1}
ReportDates == {"2024-01-15", "2024-04-02"}
ReportAmounts == {100}

\* POST /expenses.  ExpenseCreate has validated the body: the date parses and
\* the amount is not negative.  The row is committed before the response is
\* built.
CreateExpense(budget_item_id, scenario_id, day, amount, description, status, is_out_of_budget) ==
    LET valid == /\ scenario_id # None
                 /\ \E i \in budget_items : i.id = budget_item_id
                 /\ \E s \in scenarios : s.id = scenario_id
        expense == NewExpense(expenses, budget_item_id, scenario_id, day, amount,
                              description, status, is_out_of_budget)
    IN  /\ run.state # "running"
        /\ IF valid
           THEN /\ Entries < MaxEntries
                /\ expense.id <= MaxId
                /\ expenses' = expenses \cup {expense}
                /\ ret' = [op |-> "create_expense", status |-> "committed",
                           id |-> expense.id, count |-> 0, args |-> <<>>]
           ELSE /\ UNCHANGED expenses
                /\ ret' = [op |-> "create_expense", status |-> "400", id |-> 0,
                           count |-> 0, args |-> <<>>]
        /\ UNCHANGED <<budget_items, scenarios, plan_entries, run, purchase_form_status_ext>>

NextReport ==
    \/ \E n \in 1..MaxRows : BeginImport("csv", n)
    \/ \E row \in ReportRows, now \in ReportTimes : ImportCsvRow(row, now)
    \/ ReturnSummary
    \/ \E budget_item_id \in 1..2, scenario_id \in 0..1, day \in ReportDates,
          amount \in ReportAmounts, status \in {RECORDED, CANCELLED},
          is_out_of_budget \in BOOLEAN :
           CreateExpense(budget_item_id, scenario_id, DateOf(day), amount, "",
                         status, is_out_of_budget)

SpecReport == Init /\ [][NextReport]_vars

(***************************************************************************)
(* The cleanup and its resequencer (app/services/cleanup.py).  The whole   *)
(* of perform_cleanup runs in one transaction of the request's session:    *)
(* it commits at its end, and an exception on the way leaves the session   *)
(* to be closed without a commit, which rolls everything back.             *)
(***************************************************************************)
\* f"SK{index:02d}"
ExpectedCode(index) == "SK" \o (IF index < 10 THEN "0" ELSE "") \o ToString(index)

\* f"TMP-{item.id}-{item.code}"
TemporaryCode(item) == "TMP-" \o ToString(item.id) \o "-" \o item.code

\* A variant of Precedes that orders by id alone.
PrecedesById(i, j) == i.id < j.id

\* order_by(BudgetItem.created_at, BudgetItem.id)
Precedes(i, j) ==
    \/ i.created_at < j.created_at
    \/ i.created_at = j.created_at /\ i.id < j.id

\* enumerate(items, start=1): the index of an item in the ordered list
IndexOf(item, items) == 1 + Cardinality({j \in items : Precedes(j, item)})

RECURSIVE Flush(_, _)
\* session.flush() of a set of code updates [id, code]: one UPDATE per row, in
\* primary key order, each checked against the unique index on code as the
\* table stands at that moment.
Flush(table, updates) ==
    IF updates = {} THEN [status |-> "ok", items |-> table]
    ELSE LET u == CHOOSE x \in updates : \A y \in updates : x.id <= y.id
             row == CHOOSE i \in table : i.id = u.id
         IN  IF \E other \in table : other.id # u.id /\ other.code = u.code
             THEN [status |-> "IntegrityError", items |-> table]
             ELSE Flush((table \ {row}) \cup {[row EXCEPT !.code = u.code]},
                        updates \ {u})

\* _resequence_budget_codes, with the flush of the final codes that
\* perform_cleanup's commit performs: the outcome, the table as the
\* transaction leaves it (on a failure: as it stood when the statement
\* failed) and the count it returns.
ResequenceBudgetCodes(items) ==
    LET pending_updates == {i \in items : i.code # ExpectedCode(IndexOf(i, items))}
        temporary == Flush(items, {[id |-> i.id, code |-> TemporaryCode(i)]
                                   : i \in pending_updates})
        final == Flush(temporary.items,
                       {[id |-> i.id, code |-> ExpectedCode(IndexOf(i, items))]
                        : i \in pending_updates})
    IN  IF pending_updates = {}
        THEN [status |-> "ok", items |-> items, count |-> 0]
        ELSE IF temporary.status # "ok"
        THEN [status |-> temporary.status, items |-> temporary.items, count |-> 0]
        ELSE IF final.status # "ok"
        THEN [status |-> final.status, items |-> final.items, count |-> 0]
        ELSE [status |-> "ok", items |-> final.items,
              count |-> Cardinality(pending_updates)]

\* A variant of SessionOutcome for a session that commits every statement.
SessionOutcomeAutocommit(status, committed, working) == working

\* What the database holds of a table once the request's session is closed
\* (get_db_session / get_session: `with Session(engine)`): the transaction's
\* table when the handler reached its session.commit(), the table as it was
\* committed before the request when an exception left the handler first.
SessionOutcome(status, committed, working) ==
    IF status = "ok" THEN working ELSE committed

\* Expense.description.ilike("%import%") on the descriptions the model uses
Descriptions == {"", "import 2024"}
IsImported(description) == description = "import 2024"

\* A variant of OrphanBudgetItems that looks at the expenses only.
OrphanBudgetItemsWithoutExpense(items, plans, exps) ==
    {i \in items : ~\E e \in exps : e.budget_item_id = i.id}

\* orphan_budget_query: the budget items that no plan entry and no expense
\* of the transaction's tables refers to
OrphanBudgetItems(items, plans, exps) ==
    {i \in items : /\ ~\E p \in plans : p.budget_item_id = i.id
                   /\ ~\E e \in exps : e.budget_item_id = i.id}

CleanupRequests ==
    [budget_item_id : {None, 1}, scenario_id : {None, 1},
     clear_imported_only : BOOLEAN, reset_plans : BOOLEAN]

\* POST /cleanup
PerformCleanup(request) ==
    LET InScope(row) ==
            /\ request.budget_item_id # None => row.budget_item_id = request.budget_item_id
            /\ request.scenario_id # None => row.scenario_id = request.scenario_id
        exps == {e \in expenses :
                    ~(InScope(e) /\ (request.clear_imported_only => IsImported(e.description)))}
        plans == IF request.reset_plans
                 THEN {p \in plan_entries : ~InScope(p)}
                 ELSE plan_entries
        orphans == IF request.reset_plans
                   THEN OrphanBudgetItems(budget_items, plans, exps)
                   ELSE {}
        r == IF request.reset_plans
             THEN ResequenceBudgetCodes(budget_items \ orphans)
             ELSE [status |-> "ok", items |-> budget_items, count |-> 0]
        args == <<ToString(request.reset_plans)>>
    IN  /\ run.state # "running"
        /\ expenses' = SessionOutcome(r.status, expenses, exps)
        /\ plan_entries' = SessionOutcome(r.status, plan_entries, plans)
        /\ budget_items' = SessionOutcome(r.status, budget_items, r.items)
        /\ ret' = [op |-> "perform_cleanup", status |-> r.status, id |-> 0,
                   count |-> r.count, args |-> args]
        /\ UNCHANGED <<scenarios, run, purchase_form_status_ext>>

\* POST /budget-items
CreateBudgetItem(code, name, map_attribute, now) ==
    LET item == [id |-> NextId(budget_items), code |-> code, name |-> name,
                 map_attribute |-> map_attribute, created_at |-> now]
    IN  /\ IF \E existing \in budget_items : existing.code = code
           THEN /\ UNCHANGED budget_items
                /\ ret' = [op |-> "create_budget_item", status |-> "400", id |-> 0,
                           count |-> 0, args |-> <<>>]
           ELSE /\ Cardinality(budget_items) < MaxItems
                /\ item.id <= MaxId
                /\ budget_items' = budget_items \cup {item}
                /\ ret' = [op |-> "create_budget_item", status |-> "ok", id |-> item.id,
                           count |-> 0, args |-> <<>>]
        /\ UNCHANGED <<scenarios, plan_entries, expenses, run, purchase_form_status_ext>>

\* POST /plans.  PlanEntryCreate has validated the month; the row is committed
\* before the response is built.
CreatePlanEntry(year, month, amount, scenario_id, budget_item_id) ==
    LET valid == /\ \E s \in scenarios : s.id = scenario_id
                 /\ \E i \in budget_items : i.id = budget_item_id
        plan == NewPlan(plan_entries, year, month, amount, scenario_id, budget_item_id)
    IN  /\ run.state # "running"
        /\ IF valid
           THEN /\ plan.id <= MaxId
                /\ plan_entries' = plan_entries \cup {plan}
                /\ ret' = [op |-> "create_plan_entry", status |-> "committed",
                           id |-> plan.id, count |-> 0, args |-> <<>>]
           ELSE /\ UNCHANGED plan_entries
                /\ ret' = [op |-> "create_plan_entry", status |-> "400", id |-> 0,
                           count |-> 0, args |-> <<>>]
        /\ UNCHANGED <<budget_items, scenarios, expenses, run, purchase_form_status_ext>>

CleanupCodes == {"A", "TMP-1-A"}

NextCleanup ==
    \/ \E code \in CleanupCodes, now \in Times : CreateBudgetItem(code, "N", "", now)
    \/ scenarios = {} /\ CreateScenario("S", 2024)
    \/ \E budget_item_id \in 1..MaxItems, description \in Descriptions :
           CreateExpense(budget_item_id, 1, DateOf("2024-01-15"), 50, description,
                         RECORDED, FALSE)
    \/ \E request \in {r \in CleanupRequests : r.scenario_id = None} :
           PerformCleanup(request)

SpecCleanup == Init /\ [][NextCleanup]_vars

\* The cleanup next to POST /plans: budget items that a plan keeps alive.
NextCleanupPlans ==
    \/ \E code \in CleanupCodes : CreateBudgetItem(code, "N", "", 1)
    \/ scenarios = {} /\ CreateScenario("S", 2024)
    \/ \E budget_item_id \in 1..MaxItems, description \in Descriptions :
           CreateExpense(budget_item_id, 1, DateOf("2024-01-15"), 50, description,
                         RECORDED, FALSE)
    \/ plan_entries = {} /\ CreatePlanEntry(2024, 1, 100, 1, 2)
    \/ \E request \in CleanupRequests : PerformCleanup(request)

SpecCleanupPlans == Init /\ [][NextCleanupPlans]_vars

(***************************************************************************)
(* The purchase reminders (app/routers/purchase_reminders.py) next to the  *)
(* operations that delete rows: the cleanup and the scenario router.       *)
(* The table purchase_form_status (PurchaseFormStatus), from which the     *)
(* cleanup and delete_scenario delete, is written by no code: it is empty  *)
(* and left out.  The rows of purchase_form_status_ext are those           *)
(* mark_purchase_forms_prepared builds.                                    *)
(***************************************************************************)
\* The columns of PlanEntry (with those of TimestampMixin)
PlanEntryColumns ==
    {"id", "year", "month", "amount", "scenario_id", "budget_item_id", "department",
     "created_at", "updated_at"}

\* The rows of plan_query: the plan entries of the year and month with an
\* amount above 0 (in the scenario, when given), joined to their budget item,
\* for which no recorded expense of the same budget item is dated in that year
\* and month (in the scenario, when given).
PurchaseReminderRows(year, month, scenario_id) ==
    {p \in plan_entries :
        /\ \E i \in budget_items : i.id = p.budget_item_id
        /\ p.year = year /\ p.month = month /\ p.amount > 0
        /\ scenario_id # None => p.scenario_id = scenario_id
        /\ ~\E e \in expenses :
              /\ e.budget_item_id = p.budget_item_id
              /\ e.year = year /\ e.month = month
              /\ e.status = RECORDED
              /\ scenario_id # None => e.scenario_id = scenario_id}

\* GET /budget/purchase-reminders.  The handler starts by building
\* func.trim(PlanEntry.budget_code): a class attribute PlanEntry does not
\* have, so the call ends there with AttributeError.  ret.args holds the
\* arguments and the set of the budget item ids returned.
ListPurchaseReminders(year, month, scenario_id) ==
    /\ run.state # "running"
    /\ IF "budget_code" \notin PlanEntryColumns
       THEN ret' = [op |-> "list_purchase_reminders", status |-> "AttributeError",
                    id |-> 0, count |-> 0, args |-> <<year, month, scenario_id, {}>>]
       ELSE LET rows == PurchaseReminderRows(year, month, scenario_id)
            IN  ret' = [op |-> "list_purchase_reminders", status |-> "ok", id |-> 0,
                        count |-> Cardinality(rows),
                        args |-> <<year, month, scenario_id,
                                   {p.budget_item_id : p \in rows}>>]
    /\ UNCHANGED <<budget_items, scenarios, plan_entries, expenses, run,
                   purchase_form_status_ext>>

\* The bodies POST /budget/purchase-reminders/mark-prepared receives, as
\* PurchaseReminderUpdate keeps them: budget_item_id, year, month and
\* is_form_prepared (pydantic drops every other key of the request).
PurchaseReminderUpdates ==
    [budget_item_id : {1}, year : {2024}, month : {1}, is_form_prepared : BOOLEAN]

\* str.strip() on the department texts
StripOf(text) == IF text = " IT " THEN "IT" ELSE text

RECURSIVE MarkItems(_, _, _)
\* The loop of mark_purchase_forms_prepared from items[k] on, over the table
\* of the transaction: the first attribute it reads of an item is
\* item.department.
MarkItems(table, items, k) ==
    IF k > Len(items) THEN [status |-> "ok", table |-> table]
    ELSE LET item == items[k] IN
         IF {"department", "budget_code", "scenario_id"} \ DOMAIN item # {}
         THEN [status |-> "AttributeError", table |-> table]
         ELSE LET normalized_department == StripOf(item.department)
                  found == {row \in table :
                               /\ row.budget_code = item.budget_code
                               /\ row.year = item.year
                               /\ row.month = item.month
                               /\ row.scenario_id = item.scenario_id
                               /\ row.department = normalized_department}
                  status == [budget_code |-> item.budget_code, year |-> item.year,
                             month |-> item.month, scenario_id |-> item.scenario_id,
                             department |-> normalized_department,
                             is_form_prepared |-> item.is_form_prepared]
              IN  MarkItems((table \ found) \cup {status}, items, k + 1)

\* POST /budget/purchase-reminders/mark-prepared: one commit after the loop.
MarkPurchaseFormsPrepared(items) ==
    LET r == MarkItems(purchase_form_status_ext, items, 1)
    IN  /\ run.state # "running"
        /\ purchase_form_status_ext' =
              SessionOutcome(r.status, purchase_form_status_ext, r.table)
        /\ ret' = [op |-> "mark_purchase_forms_prepared", status |-> r.status,
                   id |-> 0, count |-> Len(items), args |-> items]
        /\ UNCHANGED <<budget_items, scenarios, plan_entries, expenses, run>>

\* session.begin() on a session: it raises InvalidRequestError when the
\* session is in a transaction already, which the first statement it ran has
\* begun.
SessionBegin(in_transaction) == IF in_transaction THEN "InvalidRequestError" ELSE "ok"

\* DELETE /scenarios/{scenario_id} by an admin.  session.get and the two
\* counts have begun the session's transaction before `with session.begin()`
\* is reached.
DeleteScenario(scenario_id, cascade_delete, confirm) ==
    LET found == {s \in scenarios : s.id = scenario_id}
        scenario_expenses == {e \in expenses : e.scenario_id = scenario_id}
        scenario_plans == {p \in plan_entries : p.scenario_id = scenario_id}
        candidate_budget_item_ids == {p.budget_item_id : p \in scenario_plans}
                                     \cup {e.budget_item_id : e \in scenario_expenses}
        exps == IF cascade_delete THEN expenses \ scenario_expenses ELSE expenses
        plans == IF cascade_delete THEN plan_entries \ scenario_plans ELSE plan_entries
        items == IF cascade_delete
                 THEN {i \in budget_items :
                          ~(i.id \in candidate_budget_item_ids
                            /\ i \in OrphanBudgetItems(budget_items, plans, exps))}
                 ELSE budget_items
        begun == SessionBegin(TRUE)
        Returns(status) == ret' = [op |-> "delete_scenario", status |-> status,
                                   id |-> scenario_id, count |-> 0, args |-> <<>>]
    IN  /\ run.state # "running"
        /\ IF found = {}
           THEN /\ Returns("404")
                /\ UNCHANGED <<budget_items, scenarios, plan_entries, expenses>>
           ELSE IF (\E s \in found : s.name = "temel") /\ ~confirm
           THEN /\ Returns("400")
                /\ UNCHANGED <<budget_items, scenarios, plan_entries, expenses>>
           ELSE IF (scenario_expenses # {} \/ scenario_plans # {}) /\ ~cascade_delete
           THEN /\ Returns("400")
                /\ UNCHANGED <<budget_items, scenarios, plan_entries, expenses>>
           ELSE /\ Returns(IF begun = "ok" THEN "204" ELSE "400")
                /\ expenses' = SessionOutcome(begun, expenses, exps)
                /\ plan_entries' = SessionOutcome(begun, plan_entries, plans)
                /\ budget_items' = SessionOutcome(begun, budget_items, items)
                /\ scenarios' = SessionOutcome(begun, scenarios, scenarios \ found)
        /\ UNCHANGED <<run, purchase_form_status_ext>>

\* DELETE /scenarios/{scenario_id}/hard by an admin: the expenses and the plan
\* entries of the scenario go with it (WarrantyItem has no scenario_id).
HardDeleteScenario(scenario_id, confirm) ==
    LET found == {s \in scenarios : s.id = scenario_id}
        Returns(status) == ret' = [op |-> "hard_delete_scenario", status |-> status,
                                   id |-> scenario_id, count |-> 0, args |-> <<>>]
    IN  /\ run.state # "running"
        /\ IF ~confirm \/ found = {}
           THEN /\ Returns(IF ~confirm THEN "400" ELSE "404")
                /\ UNCHANGED <<scenarios, plan_entries, expenses>>
           ELSE /\ Returns("ok")
                /\ expenses' = {e \in expenses : e.scenario_id # scenario_id}
                /\ plan_entries' = {p \in plan_entries : p.scenario_id # scenario_id}
                /\ scenarios' = scenarios \ found
        /\ UNCHANGED <<budget_items, run, purchase_form_status_ext>>

ReminderMonths == {1, 2}
ReminderAmounts == {0, 100}
ReminderDates == {"2024-01-15", "2024-04-02"}

NextReminders ==
    \/ budget_items = {} /\ CreateBudgetItem("A", "N", "", 1)
    \/ scenarios = {} /\ CreateScenario("S", 2024)
    \/ \E month \in ReminderMonths, amount \in ReminderAmounts :
           Entries < MaxEntries /\ CreatePlanEntry(2024, month, amount, 1, 1)
    \/ \E day \in ReminderDates, status \in {RECORDED, CANCELLED} :
           CreateExpense(1, 1, DateOf(day), 50, "", status, FALSE)
    \/ \E scenario_id \in {None, 1} : ListPurchaseReminders(2024, 1, scenario_id)
    \/ \E item \in PurchaseReminderUpdates : MarkPurchaseFormsPrepared(<<item>>)
    \/ \E request \in CleanupRequests : PerformCleanup(request)
    \/ \E cascade_delete \in BOOLEAN : DeleteScenario(1, cascade_delete, FALSE)
    \/ \E confirm \in BOOLEAN : HardDeleteScenario(1, confirm)

SpecReminders == Init /\ [][NextReminders]_vars

(***************************************************************************)
(* The dashboard (app/routers/dashboard.py).                               *)
(***************************************************************************)
\* max(x, 0)
ClampAtZero(x) == IF x > 0 THEN x ELSE 0

\* A variant of DashboardKpi that leaves the remainder as it comes.
DashboardKpiUnclamped(monthly) ==
    LET totals == Totalize(monthly)
        savings == [i \in DOMAIN monthly |-> Saving(monthly[i])]
    IN  [total_plan |-> totals[1], total_actual |-> totals[2],
         total_remaining |-> totals[1] - totals[2],
         total_saving |-> SumOf(savings, {i \in DOMAIN monthly : savings[i] > 0}),
         total_overrun |-> SumOf([i \in DOMAIN monthly |-> 0 - savings[i]],
                                 {i \in DOMAIN monthly : savings[i] < 0})]

\* The DashboardKPI get_dashboard computes from the list of MonthlyAggregate.
DashboardKpi(monthly) ==
    LET totals == Totalize(monthly)
        savings == [i \in DOMAIN monthly |-> Saving(monthly[i])]
    IN  [total_plan |-> totals[1], total_actual |-> totals[2],
         total_remaining |-> ClampAtZero(totals[1] - totals[2]),
         total_saving |-> SumOf(savings, {i \in DOMAIN monthly : savings[i] > 0}),
         total_overrun |-> SumOf([i \in DOMAIN monthly |-> 0 - savings[i]],
                                 {i \in DOMAIN monthly : savings[i] < 0})]

\* The positional parameters compute_monthly_summary accepts: session, year,
\* scenario_id, budget_item_id, month.
ComputeMonthlySummaryParameters == 5

\* GET /dashboard.  The handler passes seven positional arguments to
\* compute_monthly_summary (session, year, scenario_id, budget_item_id, month,
\* department, capex_filter): the call raises TypeError.  ret.args holds the
\* list of the monthly aggregates and the KPI.
GetDashboard(year, scenario_id, month, budget_item_id) ==
    LET arguments == <<"session", year, scenario_id, budget_item_id, month, None, None>>
        monthly == ComputeMonthlySummary(plan_entries, expenses, year, scenario_id,
                                         budget_item_id, month)
    IN  /\ run.state # "running"
        /\ IF Len(arguments) > ComputeMonthlySummaryParameters
           THEN ret' = [op |-> "get_dashboard", status |-> "TypeError", id |-> 0,
                        count |-> 0, args |-> <<>>]
           ELSE ret' = [op |-> "get_dashboard", status |-> "ok", id |-> 0,
                        count |-> Len(monthly), args |-> <<monthly, DashboardKpi(monthly)>>]
        /\ UNCHANGED <<budget_items, scenarios, plan_entries, expenses, run,
                       purchase_form_status_ext>>

\* The monthly aggregates handed to the KPI computation: lists of up to
\* MaxMonths MonthlyAggregate, with sums that include a month without a plan,
\* a month spent beyond its plan and the negative sums negative rows give.
MaxMonths == 2
KpiPlanned == {0 - 5, 0, 100}
KpiActual == {0 - 5, 0, 50, 150}

MonthlyAggregates ==
    UNION {[1..n -> [month : {1}, planned : KpiPlanned, actual : KpiActual]]
           : n \in 0..MaxMonths}

\* Lines 171-188 of get_dashboard on a given list of monthly aggregates.
ComputeDashboardKpi(monthly) ==
    /\ run.state # "running"
    /\ ret' = [op |-> "dashboard_kpi", status |-> "ok", id |-> 0,
               count |-> Len(monthly), args |-> <<monthly, DashboardKpi(monthly)>>]
    /\ UNCHANGED <<budget_items, scenarios, plan_entries, expenses, run,
                   purchase_form_status_ext>>

NextDashboard ==
    \/ \E monthly \in MonthlyAggregates : ComputeDashboardKpi(monthly)
    \/ \E scenario_id \in {None, 1}, month \in {None, 1} :
           GetDashboard(2024, scenario_id, month, None)

SpecDashboard == Init /\ [][NextDashboard]_vars

(***************************************************************************)
(* The per-item views of the dashboard: risky items and overbudget items.  *)
(* Both read the tables only.  A query without ORDER BY yields its rows in *)
(* an order the database chooses: every order is possible.                 *)
(***************************************************************************)
\* The sum of the amounts of a set of PlanEntry or Expense rows
TotalAmount(rows) == SumOf([r \in rows |-> r.amount], rows)

\* _budget_item_aggregates without department and capex_opex filter: one row
\* per budget item that has a plan entry in the year (up to the month, when
\* given), with the sum of those plans and the sum of its recorded, in-budget
\* expenses of the year (up to the month).
BudgetItemAggregates(year, month) ==
    LET PlansOf(i) == {p \in plan_entries :
                          /\ p.budget_item_id = i.id /\ p.year = year
                          /\ month # None => p.month <= month}
        ExpensesOf(i) == {e \in expenses :
                             /\ e.budget_item_id = i.id /\ e.year = year
                             /\ IsActual(e)
                             /\ month # None => e.month <= month}
    IN  {[budget_item_id |-> i.id, code |-> i.code, name |-> i.name,
          plan |-> TotalAmount(PlansOf(i)), actual |-> TotalAmount(ExpensesOf(i))]
         : i \in {j \in budget_items : PlansOf(j) # {}}}

\* The rows of a result set in the order the database yields them, given as
\* a permutation of the budget item ids.
InOrder(rows, order, k) ==
    LET F[i \in 0..k] ==
            IF i = 0 THEN <<>>
            ELSE LET here == {r \in rows : r.budget_item_id = order[i]}
                 IN  IF here = {} THEN F[i - 1]
                     ELSE Append(F[i - 1], CHOOSE r \in here : TRUE)
    IN  F[k]

\* ratio = actual / plan, kept as the fraction; plan > 0 where it is computed.
RatioAtLeast(item, num, den) == item.actual * den >= num * item.plan
RatioBelow(a, b) == a.actual * b.plan < b.actual * a.plan

\* A variant of SortByRatio that sorts by ratio ascending.
SortByRatioAscending(items) ==
    LET F[n \in 0..Len(items)] ==
            IF n = 0 THEN <<>>
            ELSE LET x == items[n]
                     sorted == F[n - 1]
                     k == Cardinality({i \in 1..(n - 1) : ~RatioBelow(x, sorted[i])})
                 IN  SubSeq(sorted, 1, k) \o <<x>> \o SubSeq(sorted, k + 1, n - 1)
    IN  F[Len(items)]

\* items.sort(key=lambda x: x.ratio, reverse=True): by ratio descending, items
\* of equal ratio in the order they had.
SortByRatio(items) ==
    LET F[n \in 0..Len(items)] ==
            IF n = 0 THEN <<>>
            ELSE LET x == items[n]
                     sorted == F[n - 1]
                     k == Cardinality({i \in 1..(n - 1) : ~RatioBelow(sorted[i], x)})
                 IN  SubSeq(sorted, 1, k) \o <<x>> \o SubSeq(sorted, k + 1, n - 1)
    IN  F[Len(items)]

\* items[:5]
RiskyCap == 5

\* The loop of get_risky_budget_items over the rows, its sort and its slice.
RiskyItems(rows) ==
    LET kept == SelectSeq(rows, LAMBDA row : row.plan > 0 /\ RatioAtLeast(row, 4, 5))
        items == SortByRatio(kept)
    IN  SubSeq(items, 1, IF Len(items) < RiskyCap THEN Len(items) ELSE RiskyCap)

\* The budget items of the per-item views: one more than the cap.
DashboardItemIds == 1..(RiskyCap + 1)
RowOrders == Permutations(DashboardItemIds)

\* GET /dashboard/risky-items.  ret.args holds the arguments, the rows of
\* _budget_item_aggregates and the list returned.
GetRiskyBudgetItems(year, month, order) ==
    LET rows == BudgetItemAggregates(year, month)
        result == RiskyItems(InOrder(rows, order, RiskyCap + 1))
    IN  /\ run.state # "running"
        /\ ret' = [op |-> "get_risky_budget_items", status |-> "ok", id |-> 0,
                   count |-> Len(result), args |-> <<year, month, rows, result>>]
        /\ UNCHANGED <<budget_items, scenarios, plan_entries, expenses, run,
                       purchase_form_status_ext>>

\* The tables the per-item views are read on: six budget items; the first
\* five have a plan of 100 in January 2024, the sixth has none, one of 0 or
\* one of 100; each item has one recorded expense in January 2024, of 50
\* (below the 0.8 of a plan of 100), 80 (at it) or 120 (above the plan).
DashboardLastPlans == {"none", "0", "100"}
DashboardActuals ==
    {actual \in [DashboardItemIds -> {50, 80, 120}] :
        /\ actual[2] = 120 /\ actual[3] = 80
        /\ actual[4] # 80
        /\ \A k \in DashboardItemIds \ {2, 3, 4} : actual[k] # 50}

InitDashboardItems ==
    /\ budget_items = {[id |-> k, code |-> ExpectedCode(k), name |-> "N",
                        map_attribute |-> "", created_at |-> 1] : k \in DashboardItemIds}
    /\ scenarios = {[id |-> 1, name |-> "S", year |-> 2024]}
    /\ \E last \in DashboardLastPlans :
          plan_entries =
             {[id |-> k, year |-> 2024, month |-> 1, amount |-> 100, scenario_id |-> 1,
               budget_item_id |-> k] : k \in 1..RiskyCap}
             \cup (IF last = "none" THEN {}
                   ELSE {[id |-> RiskyCap + 1, year |-> 2024, month |-> 1,
                          amount |-> FloatOf(last), scenario_id |-> 1,
                          budget_item_id |-> RiskyCap + 1]})
    /\ \E actual \in DashboardActuals :
             expenses = {[id |-> k, budget_item_id |-> k, scenario_id |-> 1, year |-> 2024,
                          month |-> 1, amount |-> actual[k], description |-> "",
                          status |-> RECORDED, is_out_of_budget |-> FALSE]
                         : k \in DashboardItemIds}
    /\ run = Idle
    /\ ret = NoReturn
    /\ purchase_form_status_ext = {}

\* _resolve_month_range: the months from `months` before the end month (the
\* month given, else today's) up to it, not before January.
ResolveMonthRange(month, months, today) ==
    LET length == IF months > 1 THEN months ELSE 1
        end_month == IF month # None THEN month ELSE today
        start_month == IF end_month - length + 1 > 1 THEN end_month - length + 1 ELSE 1
    IN  start_month..end_month

\* A variant of OverOf without the clamp.
OverOfUnclamped(plan, actual) == actual - plan

\* over = max(actual - plan, 0)
OverOf(plan, actual) == IF actual - plan > 0 THEN actual - plan ELSE 0

\* over_pct = (over / plan * 100) if plan > 0 else 0.0, kept as a fraction
OverPctOf(over, plan) ==
    IF plan > 0 THEN [num |-> over * 100, den |-> plan] ELSE [num |-> 0, den |-> 1]

\* items.sort(key=lambda item: item.over, reverse=True)
SortByOver(items) ==
    LET F[n \in 0..Len(items)] ==
            IF n = 0 THEN <<>>
            ELSE LET x == items[n]
                     sorted == F[n - 1]
                     k == Cardinality({i \in 1..(n - 1) : sorted[i].over >= x.over})
                 IN  SubSeq(sorted, 1, k) \o <<x>> \o SubSeq(sorted, k + 1, n - 1)
    IN  F[Len(items)]

\* The rows of get_overbudget's query, without department and capex_opex
\* filter: the budget items LEFT JOINed to their plan sum and to their
\* recorded, in-budget expense sum over the months of the range; the item of
\* the budget code when one is given, else the items that have either sum.
OverbudgetRows(year, scenario_id, month_range, budget_code) ==
    LET PlansOf(i) == {p \in plan_entries :
                          /\ p.budget_item_id = i.id /\ p.year = year
                          /\ p.month \in month_range
                          /\ scenario_id # None => p.scenario_id = scenario_id}
        ExpensesOf(i) == {e \in expenses :
                             /\ e.budget_item_id = i.id /\ e.year = year
                             /\ e.month \in month_range /\ IsActual(e)
                             /\ scenario_id # None => e.scenario_id = scenario_id}
    IN  {[budget_item_id |-> i.id, code |-> i.code, name |-> i.name,
          plan |-> TotalAmount(PlansOf(i)), actual |-> TotalAmount(ExpensesOf(i))]
         : i \in {j \in budget_items :
                     IF Truthy(budget_code) THEN j.code = budget_code
                     ELSE PlansOf(j) # {} \/ ExpensesOf(j) # {}}}

\* The loop of get_overbudget over the rows, its sort and its summary.
OverbudgetResponse(rows, budget_code) ==
    LET made == [k \in DOMAIN rows |->
                    LET over == OverOf(rows[k].plan, rows[k].actual)
                    IN  [budget_code |-> rows[k].code, budget_name |-> rows[k].name,
                         plan |-> rows[k].plan, actual |-> rows[k].actual,
                         over |-> over, over_pct |-> OverPctOf(over, rows[k].plan)]]
        items == SortByOver(SelectSeq(made, LAMBDA item : Truthy(budget_code) \/ item.over > 0))
    IN  [summary |-> [over_total |-> SumOf([k \in DOMAIN items |-> items[k].over],
                                           DOMAIN items),
                      over_item_count |-> Cardinality({k \in DOMAIN items :
                                                          items[k].over > 0})],
         items |-> items]

\* GET /dashboard/overbudget with a year.  ret.args holds the budget code
\* asked for and the response.
GetOverbudget(year, scenario_id, months, month, budget_code, today, order) ==
    LET month_range == ResolveMonthRange(month, months, today)
        rows == OverbudgetRows(year, scenario_id, month_range, budget_code)
        response == OverbudgetResponse(InOrder(rows, order, RiskyCap + 1), budget_code)
    IN  /\ run.state # "running"
        /\ ret' = [op |-> "get_overbudget", status |-> "ok", id |-> 0,
                   count |-> Len(response.items), args |-> <<budget_code, response>>]
        /\ UNCHANGED <<budget_items, scenarios, plan_entries, expenses, run,
                       purchase_form_status_ext>>

\* Each table is read once by each view, under every order of the rows; a
\* budget code selects one row, which has one order.
IdentityOrder == [k \in DashboardItemIds |-> k]

NextDashboardItems ==
    \/ \E order \in RowOrders :
           ret = NoReturn /\ GetRiskyBudgetItems(2024, None, order)
    \/ \E order \in RowOrders :
           ret = NoReturn /\ GetOverbudget(2024, None, 3, 1, "", 1, order)
    \/ \E scenario_id \in {None, 1} :
           ret = NoReturn /\ GetOverbudget(2024, scenario_id, 3, 1, "SK04", 1, IdentityOrder)

SpecDashboardItems == InitDashboardItems /\ [][NextDashboardItems]_vars

(***************************************************************************)
(* import_csv on a file as csv.DictReader reads it: every row is a dict    *)
(* keyed by the header texts of the file's first line.                     *)
(***************************************************************************)
CsvColumns ==
    {"type", "budget_code", "budget_name", "map_attribute", "capex_opex", "scenario",
     "year", "month", "amount", "date", "out_of_budget", "description"}

\* The header line of a file: the canonical names, or the titled ones.
CsvHeader(style, column) ==
    IF style = "canonical" THEN column
    ELSE CASE column = "type" -> "Type"
           [] column = "budget_code" -> "Budget Code"
           [] column = "budget_name" -> "Budget Name"
           [] column = "map_attribute" -> "Map-Nitelik"
           [] column = "capex_opex" -> "Capex/Opex"
           [] column = "scenario" -> "Scenario"
           [] column = "year" -> "Year"
           [] column = "month" -> "Month"
           [] column = "amount" -> "Amount"
           [] column = "date" -> "Date"
           [] column = "out_of_budget" -> "Out_of_Budget"
           [] column = "description" -> "Description"

\* The dict csv.DictReader makes of a line under a header line
DictRow(style, row) ==
    [key \in {CsvHeader(style, column) : column \in CsvColumns} |->
        row[CHOOSE column \in CsvColumns : CsvHeader(style, column) = key]]

\* re.sub(r"[^a-z0-9]", "", key.lower()) on the header texts of the model
NormalizeKey(key) ==
    CASE key \in {"capex_opex", "Capex/Opex"} -> "capexopex"
      [] key \in {"budget_code", "Budget Code"} -> "budgetcode"
      [] key \in {"budget_name", "Budget Name"} -> "budgetname"
      [] key \in {"out_of_budget", "Out_of_Budget"} -> "outofbudget"
      [] key = "map_attribute" -> "mapattribute"
      [] key = "Map-Nitelik" -> "mapnitelik"
      [] key \in {"type", "Type"} -> "type"
      [] key \in {"scenario", "Scenario"} -> "scenario"
      [] key \in {"year", "Year"} -> "year"
      [] key \in {"month", "Month"} -> "month"
      [] key \in {"amount", "Amount"} -> "amount"
      [] key \in {"date", "Date"} -> "date"
      [] key \in {"description", "Description"} -> "description"

\* _extract_text_with_aliases: the keys and the aliases are compared in
\* normalised form; the first alias with a non-empty value wins.
ExtractTextWithAliases(data, aliases) ==
    LET hits == {key \in DOMAIN data : NormalizeKey(key) \in aliases /\ Truthy(data[key])}
    IN  IF hits = {} THEN "" ELSE data[CHOOSE key \in hits : TRUE]

\* _extract_map_attribute: data.get(key) under the keys as they are written
\* in the function; the first non-empty value wins.
ExtractMapAttribute(data) ==
    LET keys == {"map_attribute", "map nitelik", "map-nitelik", "mapnitelik", "map_nitelik"}
        hits == {key \in keys \cap DOMAIN data : Truthy(data[key])}
    IN  IF hits = {} THEN "" ELSE data[CHOOSE key \in hits : TRUE]

\* row.get(key, default)
DictGet(data, key, default) == IF key \in DOMAIN data THEN data[key] ELSE default

\* The body of import_csv's loop for one dict.  row["budget_code"] of a dict
\* without that key raises KeyError before a resolver has run; a dict without
\* "year", "month", "amount" or "date" raises it where the text of a present
\* cell would fail to parse, so the absent cell is given as a text that does
\* not parse.
CsvDictRowEffects(data, now) ==
    LET entry_type == DictGet(data, "type", "plan")
        row == [type |-> entry_type,
                budget_code |-> DictGet(data, "budget_code", ""),
                budget_name |-> DictGet(data, "budget_name", ""),
                map_attribute |-> ExtractMapAttribute(data),
                capex_opex |-> ExtractTextWithAliases(data, {"capexopex"}),
                scenario |-> DictGet(data, "scenario", ""),
                year |-> DictGet(data, "year", ""),
                month |-> DictGet(data, "month", ""),
                amount |-> DictGet(data, "amount", ""),
                date |-> DictGet(data, "date", ""),
                out_of_budget |-> DictGet(data, "out_of_budget", "false"),
                description |-> DictGet(data, "description", "")]
    IN  IF entry_type \in {"plan", "expense"} /\ "budget_code" \notin DOMAIN data
        THEN {Effect("ok", 0, 0, 1, budget_items, scenarios, plan_entries, expenses)}
        ELSE CsvRowEffects(row, now)

\* The lines of the files: a plan and an expense of budget item A, as in
\* test_import_csv_preserves_map_attribute, with and without a map attribute.
HeaderStyles == {"canonical", "titled"}

HeaderRows ==
    [type : {"plan"}, budget_code : {"A"}, budget_name : {"N"},
     map_attribute : {"", "Hizmet"}, capex_opex : {""}, scenario : {"S"},
     year : {"2024"}, month : {"1"}, amount : {"100", "50"},
     date : {""}, out_of_budget : {""}, description : {""}]
    \cup
    [type : {"expense"}, budget_code : {"A"}, budget_name : {"N"},
     map_attribute : {"", "Hizmet"}, capex_opex : {""}, scenario : {"S"},
     year : {"2024"}, month : {""}, amount : {"100", "50"},
     date : {"2024-01-15"}, out_of_budget : {"true", "false"}, description : {""}]

\* The run kind of an import_csv call on a file with the given header line
CsvKind(style) == IF style = "canonical" THEN "csv" ELSE "csv_titled"

ImportCsvDictRow(style, row, now) ==
    /\ Running(CsvKind(style))
    /\ \E eff \in CsvDictRowEffects(DictRow(style, row), now) : Apply(eff)

NextHeaders ==
    \/ \E style \in HeaderStyles, n \in 1..MaxRows : BeginImport(CsvKind(style), n)
    \/ \E style \in HeaderStyles, row \in HeaderRows : ImportCsvDictRow(style, row, 1)
    \/ ReturnSummary

SpecHeaders == Init /\ [][NextHeaders]_vars

(***************************************************************************)
(* The numeric coercers: the validators of ExpenseBase and ExpenseUpdate   *)
(* (app/schemas.py) and _coerce_float (app/services/importer.py).  A text  *)
(* is the sequence of its characters; a number is the exact fraction       *)
(* num / den its decimal notation stands for.                              *)
(***************************************************************************)
Digits == {"0", "1", "2", "3", "4", "5", "6", "7", "8", "9"}

DigitOf(char) ==
    CASE char = "0" -> 0 [] char = "1" -> 1 [] char = "2" -> 2 [] char = "3" -> 3
      [] char = "4" -> 4 [] char = "5" -> 5 [] char = "6" -> 6 [] char = "7" -> 7
      [] char = "8" -> 8 [] char = "9" -> 9

\* str.replace(old, new) for a character old and a new of one or no character
Replace(text, old, new) ==
    LET F[n \in 0..Len(text)] ==
            IF n = 0 THEN <<>>
            ELSE IF text[n] = old THEN F[n - 1] \o new
            ELSE Append(F[n - 1], text[n])
    IN  F[Len(text)]

Power10(n) == LET F[k \in 0..n] == IF k = 0 THEN 1 ELSE 10 * F[k - 1] IN F[n]

\* float(text) for a text of digits, "." and a leading "-": the number, or
\* ValueError (no digit, a second ".", a "," or any other character).
ParseFloat(text) ==
    LET negative == Len(text) > 0 /\ text[1] = "-"
        body == IF negative THEN SubSeq(text, 2, Len(text)) ELSE text
        dots == {k \in DOMAIN body : body[k] = "."}
        digits == SelectSeq(body, LAMBDA char : char \in Digits)
        Value[n \in 0..Len(digits)] ==
            IF n = 0 THEN 0 ELSE 10 * Value[n - 1] + DigitOf(digits[n])
        decimals == IF dots = {} THEN 0 ELSE Len(body) - (CHOOSE k \in dots : TRUE)
    IN  IF \/ \E k \in DOMAIN body : body[k] \notin Digits \cup {"."}
           \/ Cardinality(dots) > 1
           \/ digits = <<>>
        THEN [status |-> "ValueError", num |-> 0, den |-> 1]
        ELSE [status |-> "ok",
              num |-> IF negative THEN 0 - Value[Len(digits)] ELSE Value[Len(digits)],
              den |-> Power10(decimals)]

Contains(text, char) == \E k \in DOMAIN text : text[k] = char

\* The separator handling the two validators share: with both a "," and a
\* "." every "." is dropped and then every "," becomes "."; otherwise every
\* "," becomes ".".
NormalizeSeparators(raw) ==
    IF Contains(raw, ",") /\ Contains(raw, ".")
    THEN Replace(Replace(raw, ".", <<>>), ",", <<".">>)
    ELSE Replace(raw, ",", <<".">>)

\* The outcome of a validator: a number, None or ValueError.
NoneValue == [status |-> "none", num |-> 0, den |-> 1]
Rejected == [status |-> "ValueError", num |-> 0, den |-> 1]

\* ExpenseBase.validate_non_negative on a text
ValidateNonNegative(value) ==
    IF value = <<>> THEN NoneValue
    ELSE LET parsed == ParseFloat(NormalizeSeparators(value))
         IN  IF parsed.status = "ok" /\ parsed.num < 0 THEN Rejected ELSE parsed

\* ExpenseUpdate.normalize_numeric_fields on a text
NormalizeNumericFields(value) ==
    IF value = <<>> THEN NoneValue
    ELSE LET parsed == ParseFloat(NormalizeSeparators(value))
         IN  IF parsed.status = "ok" /\ parsed.num < 0 THEN Rejected ELSE parsed

\* _coerce_float on a text
CoerceFloat(value) ==
    IF value = <<>> THEN Rejected ELSE ParseFloat(value)

\* The texts handed to the coercers: every text of up to MaxTextLen
\* characters over a digit, a second digit and the two separators, and the
\* two grouped notations of 1234.56.
MaxTextLen == 3
NumericChars == {"1", "5", ",", "."}
GroupedComma == <<"1", ".", "2", "3", "4", ",", "5", "6">>
GroupedDot == <<"1", ",", "2", "3", "4", ".", "5", "6">>

NumericTexts ==
    UNION {[1..n -> NumericChars] : n \in 0..MaxTextLen} \cup {GroupedComma, GroupedDot}

Coercers == {"validate_non_negative", "normalize_numeric_fields", "_coerce_float"}

\* One call of a coercer on a text; ret.args holds the text and the outcome.
Coerce(coercer, value) ==
    LET outcome == CASE coercer = "validate_non_negative" -> ValidateNonNegative(value)
                     [] coercer = "normalize_numeric_fields" -> NormalizeNumericFields(value)
                     [] coercer = "_coerce_float" -> CoerceFloat(value)
    IN  /\ run.state # "running"
        /\ ret' = [op |-> coercer, status |-> outcome.status, id |-> 0, count |-> 0,
                   args |-> <<value, outcome>>]
        /\ UNCHANGED <<budget_items, scenarios, plan_entries, expenses, run,
                       purchase_form_status_ext>>

NextCoercers ==
    \E coercer \in Coercers, value \in NumericTexts : Coerce(coercer, value)

SpecCoercers == Init /\ [][NextCoercers]_vars

(***************************************************************************)
(* The three ways an expense reaches the table: POST /expenses, PUT        *)
(* /expenses/{id} (app/routers/expenses.py) and the CSV import.  The       *)
(* request bodies carry the amount as a JSON number.                       *)
(***************************************************************************)
\* The columns of Expense (with those of TimestampMixin)
ExpenseColumns ==
    {"id", "budget_item_id", "scenario_id", "expense_date", "amount", "quantity",
     "unit_price", "vendor", "description", "status", "is_out_of_budget",
     "created_by_id", "client_hostname", "kaydi_giren_kullanici", "created_at",
     "updated_at"}

\* ExpenseBase.validate_non_negative on a number
ValidateNonNegativeNumber(value) == IF value < 0 THEN "ValueError" ELSE "ok"

\* ExpenseUpdate.normalize_numeric_fields on a number: float(value), unchecked
NormalizeNumericNumber(value) == "ok"

\* POST /expenses with its body: ExpenseCreate validates the amount before
\* create_expense runs, and a rejected body is answered with 422.
PostExpense(budget_item_id, scenario_id, day, amount, status, is_out_of_budget) ==
    IF ValidateNonNegativeNumber(amount) = "ok"
    THEN CreateExpense(budget_item_id, scenario_id, day, amount, "", status,
                       is_out_of_budget)
    ELSE /\ run.state # "running"
         /\ ret' = [op |-> "create_expense", status |-> "422", id |-> 0, count |-> 0,
                    args |-> <<amount>>]
         /\ UNCHANGED <<budget_items, scenarios, plan_entries, expenses, run,
                        purchase_form_status_ext>>

\* PUT /expenses/{expense_id} with an amount in its body.  The handler reads
\* expense.created_by_user_id of the row it found before it changes anything.
UpdateExpense(expense_id, amount) ==
    LET found == {e \in expenses : e.id = expense_id}
        updated == {[e EXCEPT !.amount = amount] : e \in found}
        answer(status) == [op |-> "update_expense", status |-> status, id |-> expense_id,
                           count |-> 0, args |-> <<amount>>]
    IN  /\ run.state # "running"
        /\ CASE NormalizeNumericNumber(amount) # "ok" ->
                  /\ ret' = answer("422")
                  /\ UNCHANGED expenses
             [] NormalizeNumericNumber(amount) = "ok" /\ found = {} ->
                  /\ ret' = answer("404")
                  /\ UNCHANGED expenses
             [] NormalizeNumericNumber(amount) = "ok" /\ found # {}
                  /\ "created_by_user_id" \notin ExpenseColumns ->
                  /\ ret' = answer("AttributeError")
                  /\ UNCHANGED expenses
             [] OTHER ->
                  /\ ret' = answer("committed")
                  /\ expenses' = (expenses \ found) \cup updated
        /\ UNCHANGED <<budget_items, scenarios, plan_entries, run, purchase_form_status_ext>>

\* The amounts of the request bodies
BodyAmounts == {0 - 5, 0, 50}

NextExpenses ==
    \/ \E n \in 1..MaxRows : BeginImport("csv", n)
    \/ \E row \in ExpenseRows, now \in ReportTimes : ImportCsvRow(row, now)
    \/ ReturnSummary
    \/ \E budget_item_id \in 1..2, scenario_id \in 0..1, amount \in BodyAmounts :
           PostExpense(budget_item_id, scenario_id, DateOf("2024-01-15"), amount,
                       RECORDED, FALSE)
    \/ \E expense_id \in 1..MaxId, amount \in BodyAmounts : UpdateExpense(expense_id, amount)

SpecExpenses == Init /\ [][NextExpenses]_vars

(***************************************************************************)
(* import_json's dispatch on the shape of the uploaded document            *)
(* (app/services/importer.py).  A payload is modelled by what the dispatch *)
(* looks at: whether the text decodes, the type of the decoded value and,  *)
(* for an object, which of the keys "plans", "year" and "items" it holds.  *)
(***************************************************************************)
JsonKeys == {"plans", "year", "items"}

JsonPayloads ==
    { p \in [valid : BOOLEAN, type : {"dict", "list", "scalar"}, keys : SUBSET JsonKeys] :
        (~p.valid \/ p.type # "dict") => p.keys = {} }

\* A variant of JsonShape that takes any object with "items" for a tree.
JsonShapeLenient(payload) ==
    IF ~payload.valid THEN "invalid"
    ELSE IF payload.type = "dict" /\ "plans" \in payload.keys THEN "plans"
    ELSE IF payload.type = "dict" /\ "items" \in payload.keys
    THEN "tree"
    ELSE IF payload.type = "list" THEN "list"
    ELSE "unsupported"

\* The branch import_json takes
JsonShape(payload) ==
    IF ~payload.valid THEN "invalid"
    ELSE IF payload.type = "dict" /\ "plans" \in payload.keys THEN "plans"
    ELSE IF payload.type = "dict" /\ "year" \in payload.keys /\ "items" \in payload.keys
    THEN "tree"
    ELSE IF payload.type = "list" THEN "list"
    ELSE "unsupported"

\* import_json is called with a payload; header and n describe the document
\* when its shape is one of the three the function reads.
ImportJson(payload, header, n) ==
    LET shape == JsonShape(payload)
    IN  CASE shape \in {"plans", "list"} -> BeginImport("json_list", n)
          [] shape = "tree" -> BeginJsonTree(header, n)
          [] OTHER ->
               /\ run.state # "running"
               /\ ret' = [op |-> "import_json", status |-> "400", id |-> 0, count |-> 0,
                          args |-> <<shape>>]
               /\ UNCHANGED <<budget_items, scenarios, plan_entries, expenses, run,
                              purchase_form_status_ext>>

\* The entries of the plan lists the uploads hold.
JsonEntries == {entry \in PlanRows : entry.capex_opex = "" /\ entry.scenario = "S"}

\* What import_json reads of a payload besides its shape: the year and the
\* scenario of a tree, the number of records of a tree or a list.
JsonHeaders(payload) ==
    IF JsonShape(payload) = "tree" THEN TreeHeaders ELSE {[year |-> "", scenario |-> ""]}

JsonLengths(payload) ==
    IF JsonShape(payload) \in {"plans", "list", "tree"} THEN 1..MaxRows ELSE {0}

NextJson ==
    \/ \E payload \in JsonPayloads :
       \E header \in JsonHeaders(payload), n \in JsonLengths(payload) :
           ImportJson(payload, header, n)
    \/ \E entry \in JsonEntries, now \in ReportTimes : ImportPlanListEntry(entry, now)
    \/ \E item \in TreeItems, now \in ReportTimes : ImportTreeItem(item, now)
    \/ ReturnSummary

SpecJson == Init /\ [][NextJson]_vars

(***************************************************************************)
(* The pivot layout of import_xlsx read from its header row                *)
(* (_import_pivot_style_rows, _parse_month_header, _find_header_index).    *)
(* A header is a sequence of characters; a data row is a sequence of cells *)
(* aligned with the header row, each cell a text ("" is an empty cell and  *)
(* "0" the number zero).                                                   *)
(***************************************************************************)
UpperCase == <<"A", "B", "C", "D", "E", "F", "G", "H", "I", "J", "K", "L", "M", "N", "O", "P", "Q", "R", "S", "T", "U", "V", "W", "X", "Y", "Z">>
LowerCase == <<"a", "b", "c", "d", "e", "f", "g", "h", "i", "j", "k", "l", "m", "n", "o", "p", "q", "r", "s", "t", "u", "v", "w", "x", "y", "z">>

\* str.lower() on the letters A-Z
Lower(text) ==
    [k \in DOMAIN text |->
        IF \E n \in DOMAIN UpperCase : UpperCase[n] = text[k]
        THEN LowerCase[CHOOSE n \in DOMAIN UpperCase : UpperCase[n] = text[k]]
        ELSE text[k]]

RECURSIVE Strip(_)
\* str.strip() on spaces
Strip(text) ==
    IF text = <<>> THEN text
    ELSE IF Head(text) = " " THEN Strip(Tail(text))
    ELSE IF text[Len(text)] = " " THEN Strip(SubSeq(text, 1, Len(text) - 1))
    ELSE text

\* sub in text
HasSubstring(text, sub) ==
    \E k \in 1..(Len(text) - Len(sub) + 1) : SubSeq(text, k, k + Len(sub) - 1) = sub

RECURSIVE StrReplace(_, _, _)
\* text.replace(old, new)
StrReplace(text, old, new) ==
    IF Len(text) < Len(old) THEN text
    ELSE IF SubSeq(text, 1, Len(old)) = old
    THEN new \o StrReplace(SubSeq(text, Len(old) + 1, Len(text)), old, new)
    ELSE <<Head(text)>> \o StrReplace(Tail(text), old, new)

RECURSIVE CollapseSpaces(_)
\* re.sub(r"\s+", " ", text)
CollapseSpaces(text) ==
    IF Len(text) < 2 THEN text
    ELSE IF text[1] = " " /\ text[2] = " " THEN CollapseSpaces(Tail(text))
    ELSE <<Head(text)>> \o CollapseSpaces(Tail(text))

\* MONTH_ALIASES, in the order of the dict
MonthAliases ==
    << [key |-> <<"j", "a", "n">>, value |-> 1], [key |-> <<"f", "e", "b">>, value |-> 2],
     [key |-> <<"m", "a", "r", "t">>, value |-> 3], [key |-> <<"a", "p", "r">>, value |-> 4],
     [key |-> <<"m", "a", "y">>, value |-> 5], [key |-> <<"j", "u", "n">>, value |-> 6],
     [key |-> <<"j", "u", "l">>, value |-> 7], [key |-> <<"a", "u", "g">>, value |-> 8],
     [key |-> <<"s", "e", "p">>, value |-> 9], [key |-> <<"s", "e", "p", "t">>, value |-> 9],
     [key |-> <<"o", "c", "t">>, value |-> 10], [key |-> <<"n", "o", "v">>, value |-> 11],
     [key |-> <<"d", "e", "c">>, value |-> 12], [key |-> <<"o", "c", "a">>, value |-> 1],
     [key |-> <<"U+015F", "u", "b">>, value |-> 2], [key |-> <<"s", "u", "b">>, value |-> 2],
     [key |-> <<"n", "i", "s">>, value |-> 4], [key |-> <<"m", "a", "y", "U+0131", "s">>, value |-> 5],
     [key |-> <<"m", "a", "y", "i", "s">>, value |-> 5], [key |-> <<"h", "a", "z">>, value |-> 6],
     [key |-> <<"t", "e", "m">>, value |-> 7], [key |-> <<"a", "U+011F", "u">>, value |-> 8],
     [key |-> <<"a", "g", "u">>, value |-> 8], [key |-> <<"e", "y", "l">>, value |-> 9],
     [key |-> <<"e", "k", "i">>, value |-> 10], [key |-> <<"k", "a", "s">>, value |-> 11],
     [key |-> <<"a", "r", "a">>, value |-> 12] >>

\* EXPENSE_COLUMN_KEYWORDS
ExpenseColumnKeywords ==
    {<<"a", "c", "t", "u", "a", "l">>,
     <<"e", "x", "p", "e", "n", "s", "e">>,
     <<"s", "p", "e", "n", "d">>,
     <<"s", "p", "e", "n", "t">>,
     <<"h", "a", "r", "c", "a", "m", "a">>,
     <<"g", "e", "r", "U+00E7", "e", "k", "l", "e", "U+015F", "e", "n">>}

\* The qualifiers _parse_month_header blanks out, in its order
MonthQualifiers ==
    <<<<"p", "l", "a", "n">>,
      <<"b", "u", "d", "g", "e", "t">>,
      <<"g", "e", "r", "U+00E7", "e", "k", "l", "e", "U+015F", "e", "n">>,
      <<"a", "c", "t", "u", "a", "l">>,
      <<"e", "x", "p", "e", "n", "s", "e">>,
      <<"h", "a", "r", "c", "a", "m", "a">>>>

Min(S) == CHOOSE x \in S : \A y \in S : x <= y

NoMonth == [month |-> 0, year |-> 0]

\* re.search(r"(20\d{2}|19\d{2}|\d{2})", text) and the century rule: the
\* year, or 0 without a match.
YearOf(text) ==
    LET starts == {k \in 1..(Len(text) - 1) : text[k] \in Digits /\ text[k + 1] \in Digits}
        k == Min(starts)
        four == /\ k + 3 <= Len(text)
                /\ SubSeq(text, k, k + 1) \in {<<"2", "0">>, <<"1", "9">>}
                /\ text[k + 2] \in Digits /\ text[k + 3] \in Digits
        two == 10 * DigitOf(text[k]) + DigitOf(text[k + 1])
    IN  IF starts = {} THEN 0
        ELSE IF four THEN 100 * two + 10 * DigitOf(text[k + 2]) + DigitOf(text[k + 3])
        ELSE IF two < 70 THEN 2000 + two ELSE 1900 + two

\* _parse_month_header: the month and the year of a header, or NoMonth
ParseMonthHeader(header) ==
    LET lowered == Lower(Strip(header))
        Blanked[n \in 0..Len(MonthQualifiers)] ==
            IF n = 0 THEN lowered ELSE StrReplace(Blanked[n - 1], MonthQualifiers[n], <<" ">>)
        normalized == CollapseSpaces(Blanked[Len(MonthQualifiers)])
        matches == {n \in DOMAIN MonthAliases : HasSubstring(normalized, MonthAliases[n].key)}
        year == YearOf(normalized)
    IN  IF \/ lowered = <<>>
           \/ HasSubstring(lowered, <<"t", "o", "t", "a", "l">>)
           \/ HasSubstring(lowered, <<"g", "e", "n", "e", "l", " ", "t", "o", "p", "l", "a", "m">>)
        THEN NoMonth
        ELSE IF matches = {} \/ year = 0 THEN NoMonth
        ELSE [month |-> MonthAliases[Min(matches)].value, year |-> year]

\* The month_columns list of _import_pivot_style_rows: the indexes (from 1) of
\* the headers that parse and hold no expense keyword
MonthColumns(headers) ==
    SelectSeq([k \in DOMAIN headers |->
                  [index |-> k, month |-> ParseMonthHeader(headers[k]).month,
                   year |-> ParseMonthHeader(headers[k]).year]],
              LAMBDA c : /\ c.month # 0
                         /\ ~\E keyword \in ExpenseColumnKeywords :
                                HasSubstring(Lower(headers[c.index]), keyword))

\* _find_header_index: the index (from 1) of the first header equal to a
\* candidate, else of the first header containing one, else 0
FindHeaderIndex(headers, candidates) ==
    LET lowered == [k \in DOMAIN headers |-> Lower(headers[k])]
        exact == {n \in DOMAIN candidates : \E k \in DOMAIN lowered : lowered[k] = candidates[n]}
        partial == {k \in DOMAIN lowered :
                       \E n \in DOMAIN candidates : HasSubstring(lowered[k], candidates[n])}
    IN  IF exact # {}
        THEN Min({k \in DOMAIN lowered : lowered[k] = candidates[Min(exact)]})
        ELSE IF partial # {} THEN Min(partial)
        ELSE 0

NameCandidates ==
    <<<<"r", "o", "w", " ", "l", "a", "b", "e", "l", "s">>,
      <<"r", "o", "w", " ", "l", "a", "b", "e", "l">>,
      <<"k", "a", "l", "e", "m">>>>

CodeCandidates ==
    <<<<"b", "u", "d", "g", "e", "t", "_", "c", "o", "d", "e">>,
      <<"b", "u", "d", "g", "e", "t", " ", "c", "o", "d", "e">>,
      <<"k", "o", "d">>,
      <<"c", "o", "d", "e">>>>

MapCandidates ==
    <<<<"m", "a", "p", " ", "a", "t", "t", "r", "i", "b", "u", "t", "e">>,
      <<"m", "a", "p", "_", "a", "t", "t", "r", "i", "b", "u", "t", "e">>,
      <<"m", "a", "p", " ", "n", "i", "t", "e", "l", "i", "k">>,
      <<"m", "a", "p">>>>

ScenarioCandidates ==
    <<<<"s", "c", "e", "n", "a", "r", "i", "o">>,
      <<"s", "e", "n", "a", "r", "y", "o">>,
      <<"b", "e", "n", "c", "h">>>>

TypeCandidates ==
    <<<<"t", "y", "p", "e">>,
      <<"t", "i", "p">>,
      <<"t", "y", "p", "e", " ", "e", "x", "p", "o", "r", "t">>>>

CapexCandidates ==
    <<<<"c", "a", "p", "e", "x", "_", "o", "p", "e", "x">>,
      <<"c", "a", "p", "e", "x", " ", "o", "p", "e", "x">>,
      <<"c", "a", "p", "e", "x", "-", "o", "p", "e", "x">>,
      <<"c", "a", "p", "e", "x", "/", "o", "p", "e", "x">>,
      <<"c", "a", "p", "e", "x", "o", "p", "e", "x">>>>

AssetCandidates ==
    <<<<"a", "s", "s", "e", "t", "_", "t", "y", "p", "e">>,
      <<"a", "s", "s", "e", "t", " ", "t", "y", "p", "e">>,
      <<"v", "a", "r", "l", "U+0131", "k", " ", "t", "i", "p", "i">>,
      <<"v", "a", "r", "l", "i", "k", " ", "t", "i", "p", "i">>,
      <<"v", "a", "r", "l", "i", "k", "_", "t", "i", "p", "i">>>>

\* The header rows of the sheets: one with an expense column, a four-digit
\* year and a total column, one with a CAPEX/OPEX column.
SheetA ==
    <<<<"R", "o", "w", " ", "L", "a", "b", "e", "l", "s">>,
      <<"M", "a", "r", "t", " ", "2", "6">>,
      <<"H", "a", "r", "c", "a", "m", "a", " ", "M", "a", "r", "t", " ", "2", "6">>,
      <<"N", "i", "s", " ", "2", "0", "2", "6">>,
      <<"G", "e", "n", "e", "l", " ", "T", "o", "p", "l", "a", "m">>>>

SheetB ==
    <<<<"R", "o", "w", " ", "L", "a", "b", "e", "l", "s">>,
      <<"C", "A", "P", "E", "X", "/", "O", "P", "E", "X">>,
      <<"M", "a", "r", "t", " ", "2", "6">>>>

Sheets == {SheetA, SheetB}

SheetNames == {"Router (10 Adet)", "Genel Toplam"}

\* The data rows of a sheet; the last row of SheetA is shorter than its header.
SheetRows(headers) ==
    IF headers = SheetA
    THEN {<<name, mart, "50", nis, "100">> :
             name \in SheetNames, mart \in {"", "0", "100"}, nis \in {"", "100"}}
         \cup {<<"Router (10 Adet)", "100">>}
    ELSE {<<name, capex, mart>> : name \in SheetNames, capex \in RowCapex, mart \in {"0", "100"}}

\* row[index] when the header was found and the row is long enough, else None
CellOf(row, index) == IF index # 0 /\ index <= Len(row) THEN row[index] ELSE ""

RECURSIVE SheetCells(_, _, _, _, _, _, _)
\* The loop over month_columns from its k-th element on: the possible outcomes.
SheetCells(k, month_columns, row, scenario_name, item_id, scs, plans) ==
    IF k > Len(month_columns)
    THEN {[scenarios |-> scs, plan_entries |-> plans, imported |-> 0]}
    ELSE LET column == month_columns[k]
             amount == CellOf(row, column.index)
         IN  IF column.index > Len(row) \/ amount \in {"", "0"} \/ amount \notin FloatTexts
             THEN SheetCells(k + 1, month_columns, row, scenario_name, item_id, scs, plans)
             ELSE UNION { { [r EXCEPT !.imported = @ + 1]
                            : r \in SheetCells(k + 1, month_columns, row, scenario_name, item_id,
                                       s.scenarios,
                                       plans \cup {NewPlan(plans, column.year, column.month,
                                                           FloatOf(amount), s.id, item_id)}) }
                          : s \in GetOrCreateScenario(scs, scenario_name, column.year) }

\* The body of the loop over data_rows for one row of a sheet with the given
\* header row.
SheetRowEffects(headers, row, now) ==
    LET name_index == FindHeaderIndex(headers, NameCandidates)
        name == CellOf(row, name_index)
        map_attribute == CellOf(row, FindHeaderIndex(headers, MapCandidates))
        capex_opex == NormalizeCapexOpex(CellOf(row, FindHeaderIndex(headers, CapexCandidates)))
        asset_type == CellOf(row, FindHeaderIndex(headers, AssetCandidates))
        code_cell == CellOf(row, FindHeaderIndex(headers, CodeCandidates))
        code_value == IF Truthy(code_cell) THEN code_cell
                      ELSE IF Truthy(map_attribute) THEN map_attribute ELSE name
        scenario_value == CellOf(row, FindHeaderIndex(headers, ScenarioCandidates))
        type_cell == CellOf(row, FindHeaderIndex(headers, TypeCandidates))
        entry_type == IF Truthy(type_cell) THEN type_cell ELSE "plan"
        e == EnsureBudgetItem(budget_items, NormalizeCode(code_value), name, map_attribute,
                              capex_opex, asset_type, now)
        Pass == Effect("ok", 0, 0, 0, budget_items, scenarios, plan_entries, expenses)
    IN  IF ~Truthy(name) \/ name \in {"Genel Toplam", "Total"}
        THEN {Pass}
        ELSE IF entry_type \notin {"plan", "planlama", "budget"}
        THEN {Pass}
        ELSE IF e.status # "ok"
        THEN {Effect("raised", 0, 0, 0, budget_items, scenarios, plan_entries, expenses)}
        ELSE { Effect("ok", c.imported, 0, 0, e.items, c.scenarios, c.plan_entries, expenses)
               : c \in SheetCells(1, MonthColumns(headers), row, scenario_value, e.id,
                                  scenarios, plan_entries) }

\* The three tests after which _import_pivot_style_rows reads the rows
IsPivot(headers) ==
    /\ \E k \in DOMAIN headers : HasSubstring(Lower(headers[k]), NameCandidates[2])
    /\ MonthColumns(headers) # <<>>
    /\ FindHeaderIndex(headers, NameCandidates) # 0

\* import_xlsx is called with a sheet of the given header row and n data rows.
BeginXlsxSheet(headers, n) ==
    IF IsPivot(headers)
    THEN /\ run.state # "running"
         /\ Entries < MaxEntries
         /\ run' = [Idle EXCEPT !.kind = "xlsx_sheet", !.state = "running", !.total = n]
         /\ ret' = [op |-> "import_xlsx", status |-> "running", id |-> 0, count |-> 0,
                    args |-> <<headers>>]
         /\ UNCHANGED <<budget_items, scenarios, plan_entries, expenses,
                        purchase_form_status_ext>>
    ELSE BeginImport("xlsx", n)

ImportSheetRow(row, now) ==
    /\ Running("xlsx_sheet")
    /\ row \in SheetRows(ret.args[1])
    /\ \E eff \in SheetRowEffects(ret.args[1], row, now) : Apply(eff)

NextSheet ==
    \/ \E headers \in Sheets, n \in 1..MaxRows : BeginXlsxSheet(headers, n)
    \/ \E headers \in Sheets : \E row \in SheetRows(headers) : ImportSheetRow(row, 1)
    \/ ReturnSummary

SpecSheet == Init /\ [][NextSheet]_vars

(***************************************************************************)
(* Two import requests at once.  Each request has its own session; every   *)
(* statement of a request is one step, and a SELECT sees what the other    *)
(* request has committed.  A request is import_csv (the record loop        *)
(* catches every exception) or the pivot layout of import_xlsx (the        *)
(* resolver is called outside any try).  Every record is a plan of 100 for *)
(* month 1 of 2024 with the budget name N and no scenario name; a file is  *)
(* the sequence of its budget codes.  Here run holds one record per        *)
(* request.                                                                *)
(***************************************************************************)
Workers == {1, 2}

WorkerKinds == {"csv", "xlsx_pivot"}

WorkerFiles(w) ==
    IF w = 1 THEN {<<"A">>, <<"A", "B">>, <<"B", "A">>}
    ELSE {<<"A">>, <<"A", "C">>, <<"C", "A">>}

IdleWorker ==
    [kind |-> "none", state |-> "idle", file |-> <<>>, pos |-> 0, pc |-> "none",
     imported_plans |-> 0, skipped_rows |-> 0, skipped_at |-> {},
     item_id |-> 0, scenario_id |-> 0]

InitRace ==
    /\ budget_items = {}
    /\ scenarios = {}
    /\ plan_entries = {}
    /\ expenses = {}
    /\ run = [w \in Workers |-> IdleWorker]
    /\ ret = NoReturn
    /\ purchase_form_status_ext = {}

\* The request after its current record is done: the next record, or the
\* return of the ImportSummary.
NextRecord(r) ==
    LET moved == [r EXCEPT !.pos = @ + 1, !.item_id = 0, !.scenario_id = 0]
    IN  IF moved.pos = Len(r.file)
        THEN [moved EXCEPT !.state = "returned", !.pc = "none"]
        ELSE [moved EXCEPT !.pc = "select_item"]

\* The current record raised: import_csv rolls back and counts it as
\* skipped, the pivot loop lets the exception leave import_xlsx.
RecordRaised(r) ==
    IF r.kind = "csv"
    THEN NextRecord([r EXCEPT !.skipped_rows = @ + 1, !.skipped_at = @ \cup {r.pos + 1}])
    ELSE [r EXCEPT !.state = "raised", !.pc = "none"]

\* The import function is called with a file.
BeginWorker(w, kind, file) ==
    /\ run[w].state = "idle"
    /\ run' = [run EXCEPT ![w] = [IdleWorker EXCEPT !.kind = kind, !.state = "running",
                                                    !.file = file, !.pc = "select_item"]]
    /\ UNCHANGED <<budget_items, scenarios, plan_entries, expenses, ret,
                   purchase_form_status_ext>>

\* _ensure_budget_item: the SELECT by code.  The found item has the name of
\* the record, so nothing is updated.
SelectItem(w) ==
    LET r == run[w]
        found == {i \in budget_items : i.code = r.file[r.pos + 1]}
    IN  /\ r.state = "running" /\ r.pc = "select_item"
        /\ run' = [run EXCEPT ![w] =
                      IF found # {}
                      THEN [r EXCEPT !.pc = "select_scenario",
                                     !.item_id = (CHOOSE i \in found : TRUE).id]
                      ELSE [r EXCEPT !.pc = "insert_item"]]
        /\ UNCHANGED <<budget_items, scenarios, plan_entries, expenses, ret,
                       purchase_form_status_ext>>

\* _ensure_budget_item: session.add(item); session.commit().  BudgetItem.code
\* is unique: the INSERT of a code that is there by now raises IntegrityError.
InsertItem(w) ==
    LET r == run[w]
        code == r.file[r.pos + 1]
        new == [id |-> NextId(budget_items), code |-> code, name |-> "N",
                map_attribute |-> "", created_at |-> 1]
    IN  /\ r.state = "running" /\ r.pc = "insert_item"
        /\ IF \E i \in budget_items : i.code = code
           THEN /\ run' = [run EXCEPT ![w] = RecordRaised(r)]
                /\ UNCHANGED budget_items
           ELSE /\ budget_items' = budget_items \cup {new}
                /\ run' = [run EXCEPT ![w] = [r EXCEPT !.pc = "select_scenario",
                                                       !.item_id = new.id]]
        /\ UNCHANGED <<scenarios, plan_entries, expenses, ret, purchase_form_status_ext>>

\* _get_or_create_scenario without a name: the SELECT by year, .first()
SelectScenario(w) ==
    LET r == run[w]
        found == {s \in scenarios : s.year = 2024}
    IN  /\ r.state = "running" /\ r.pc = "select_scenario"
        /\ IF found # {}
           THEN \E s \in found :
                   run' = [run EXCEPT ![w] = [r EXCEPT !.pc = "insert_plan",
                                                       !.scenario_id = s.id]]
           ELSE run' = [run EXCEPT ![w] = [r EXCEPT !.pc = "insert_scenario"]]
        /\ UNCHANGED <<budget_items, scenarios, plan_entries, expenses, ret,
                       purchase_form_status_ext>>

\* _get_or_create_scenario: session.add(scenario); session.commit().  Scenario
\* has no unique constraint.
InsertScenario(w) ==
    LET r == run[w]
        new == [id |-> NextId(scenarios), name |-> DefaultScenarioName(2024), year |-> 2024]
    IN  /\ r.state = "running" /\ r.pc = "insert_scenario"
        /\ scenarios' = scenarios \cup {new}
        /\ run' = [run EXCEPT ![w] = [r EXCEPT !.pc = "insert_plan", !.scenario_id = new.id]]
        /\ UNCHANGED <<budget_items, plan_entries, expenses, ret, purchase_form_status_ext>>

\* session.add(plan); session.commit(); summary.imported_plans += 1
InsertPlan(w) ==
    LET r == run[w]
    IN  /\ r.state = "running" /\ r.pc = "insert_plan"
        /\ plan_entries' = plan_entries
               \cup {NewPlan(plan_entries, 2024, 1, 100, r.scenario_id, r.item_id)}
        /\ run' = [run EXCEPT ![w] = NextRecord([r EXCEPT !.imported_plans = @ + 1])]
        /\ UNCHANGED <<budget_items, scenarios, expenses, ret, purchase_form_status_ext>>

NextRace ==
    \/ \E w \in Workers, kind \in WorkerKinds : \E file \in WorkerFiles(w) :
           BeginWorker(w, kind, file)
    \/ \E w \in Workers : SelectItem(w)
    \/ \E w \in Workers : InsertItem(w)
    \/ \E w \in Workers : SelectScenario(w)
    \/ \E w \in Workers : InsertScenario(w)
    \/ \E w \in Workers : InsertPlan(w)

SpecRace == InitRace /\ [][NextRace]_vars

(***************************************************************************)
(* build_dashboard_reminders (app/services/dashboard_insights.py), the     *)
(* part that turns the monthly aggregates into missing-invoice warnings.   *)
(* The module imports DashboardReminder, DashboardTodayEntry and           *)
(* DashboardTodayPanel from app.schemas; schemas.py declares the dashboard *)
(* classes listed in SchemaDashboardClasses.                               *)
(***************************************************************************)
SchemaDashboardClasses == {"DashboardSummary", "DashboardKPI", "DashboardResponse"}

InsightsImports == {"DashboardReminder", "DashboardTodayEntry", "DashboardTodayPanel"}

\* The cutoff month of the loop
MonthCutoff(year, today) ==
    IF year > today.year THEN 0
    ELSE IF year = today.year THEN today.month
    ELSE 12

\* The months of the warnings the loop appends, in its order, cut to three
MissingInvoiceWarnings(year, today, monthly) ==
    LET flagged == SelectSeq(monthly,
                       LAMBDA entry : /\ ~(year > today.year)
                                      /\ ~(entry.month > MonthCutoff(year, today))
                                      /\ ~(entry.planned <= 0 \/ entry.actual > 0))
    IN  [k \in 1..(IF Len(flagged) < 3 THEN Len(flagged) ELSE 3) |-> flagged[k].month]

\* The monthly aggregates handed in: the months 1 to 4 in order
InsightMonthly ==
    { [k \in 1..4 |-> [month |-> k, planned |-> planned[k], actual |-> actual[k]]] :
        planned \in [1..4 -> {0, 100}], actual \in [1..4 -> {0, 50}] }

InsightYears == {2023, 2024, 2025}
InsightTodays == {[year |-> 2024, month |-> 2], [year |-> 2024, month |-> 12]}

\* A caller imports the module and calls build_dashboard_reminders; ret.args
\* holds the arguments, the day and the months of the warnings returned.
BuildDashboardReminders(year, today, monthly) ==
    /\ run.state # "running"
    /\ IF ~(InsightsImports \subseteq SchemaDashboardClasses)
       THEN ret' = [op |-> "build_dashboard_reminders", status |-> "ImportError", id |-> 0,
                    count |-> 0, args |-> <<year, today, monthly, <<>>>>]
       ELSE LET warnings == MissingInvoiceWarnings(year, today, monthly)
            IN  ret' = [op |-> "build_dashboard_reminders", status |-> "ok", id |-> 0,
                        count |-> Len(warnings), args |-> <<year, today, monthly, warnings>>]
    /\ UNCHANGED <<budget_items, scenarios, plan_entries, expenses, run,
                   purchase_form_status_ext>>

NextInsights ==
    \E year \in InsightYears, today \in InsightTodays, monthly \in InsightMonthly :
        ret = NoReturn /\ BuildDashboardReminders(year, today, monthly)

SpecInsights == Init /\ [][NextInsights]_vars

(***************************************************************************)
(* _resequence_budget_codes one UPDATE at a time.  budget_items is the     *)
(* table as the cleanup's transaction sees it; run holds the updates still *)
(* to be sent, first those of the temporary codes (session.flush()), then  *)
(* those of the final codes (the flush of perform_cleanup's commit), each  *)
(* flush in primary key order.                                             *)
(***************************************************************************)
\* A variant of ResequencePhases that renames straight to the final codes.
ResequencePhasesDirect(items) ==
    LET pending_updates == {i \in items : i.code # ExpectedCode(IndexOf(i, items))}
    IN  << {},
           {[id |-> i.id, code |-> ExpectedCode(IndexOf(i, items))] : i \in pending_updates} >>

\* The code updates of the two loops over pending_updates
ResequencePhases(items) ==
    LET pending_updates == {i \in items : i.code # ExpectedCode(IndexOf(i, items))}
    IN  << {[id |-> i.id, code |-> TemporaryCode(i)] : i \in pending_updates},
           {[id |-> i.id, code |-> ExpectedCode(IndexOf(i, items))] : i \in pending_updates} >>

ResequenceCodes == {"SK01", "SK02", "SK03", "A", "TMP-1-A"}

\* The tables the resequencer can find: the ids 1..n, codes that are unique.
ResequenceTables ==
    UNION { { {[id |-> k, code |-> code[k], name |-> "N", map_attribute |-> "",
                created_at |-> created_at[k]] : k \in 1..n}
              : code \in {f \in [1..n -> ResequenceCodes] :
                             \A a, b \in 1..n : f[a] = f[b] => a = b},
                created_at \in [1..n -> Times] }
            : n \in 2..(MaxItems + 1) }

InitResequence ==
    /\ budget_items \in ResequenceTables
    /\ scenarios = {}
    /\ plan_entries = {}
    /\ expenses = {}
    /\ run = [kind |-> "resequence", state |-> "idle", phase |-> 0, updates |-> {},
              final |-> {}, initial |-> budget_items, count |-> 0]
    /\ ret = NoReturn
    /\ purchase_form_status_ext = {}

\* _resequence_budget_codes is called: pending_updates is computed.
BeginResequence ==
    LET phases == ResequencePhases(budget_items)
    IN  /\ run.state = "idle"
        /\ run' = IF phases[2] = {}
                  THEN [run EXCEPT !.state = "returned"]
                  ELSE [run EXCEPT !.state = "running",
                                   !.phase = IF phases[1] = {} THEN 2 ELSE 1,
                                   !.updates = IF phases[1] = {} THEN phases[2] ELSE phases[1],
                                   !.final = phases[2],
                                   !.count = Cardinality(phases[2])]
        /\ UNCHANGED <<budget_items, scenarios, plan_entries, expenses, ret,
                       purchase_form_status_ext>>

\* One UPDATE of a flush, checked against the unique index on code as the
\* table stands; a refused UPDATE raises IntegrityError.
UpdateRow ==
    LET u == CHOOSE x \in run.updates : \A y \in run.updates : x.id <= y.id
        row == CHOOSE i \in budget_items : i.id = u.id
        rest == run.updates \ {u}
    IN  /\ run.state = "running"
        /\ IF \E other \in budget_items : other.id # u.id /\ other.code = u.code
           THEN /\ run' = [run EXCEPT !.state = "raised"]
                /\ UNCHANGED budget_items
           ELSE /\ budget_items' = (budget_items \ {row}) \cup {[row EXCEPT !.code = u.code]}
                /\ run' = IF rest # {} THEN [run EXCEPT !.updates = rest]
                          ELSE IF run.phase = 1
                          THEN [run EXCEPT !.phase = 2, !.updates = run.final]
                          ELSE [run EXCEPT !.updates = {}, !.state = "returned"]
        /\ UNCHANGED <<scenarios, plan_entries, expenses, ret, purchase_form_status_ext>>

NextResequence ==
    \/ BeginResequence
    \/ UpdateRow

SpecResequence == InitResequence /\ [][NextResequence]_vars

(***************************************************************************)
(* import_csv with a record of what the run itself has written: the ids of *)
(* the budget items and scenarios its resolver calls created and the       *)
(* number of plans and expenses stored when it started.                    *)
(***************************************************************************)
\* The cells of the row coerce: the record is imported when its budget item
\* and its scenario resolve.
WellFormed(row) ==
    /\ row.type \in {"plan", "expense"}
    /\ row.year \in IntTexts
    /\ row.amount \in FloatTexts
    /\ IF row.type = "plan" THEN row.month \in IntTexts ELSE row.date \in DateTexts

\* What the run remembers of the record it processed last.
Digest(row) ==
    [budget_code |-> row.budget_code, budget_name |-> row.budget_name,
     capex_opex |-> row.capex_opex, scenario |-> row.scenario, year |-> row.year,
     well_formed |-> WellFormed(row)]

CsvIdle ==
    Idle @@ [created_items |-> {}, created_scenarios |-> {}, plans0 |-> 0, expenses0 |-> 0,
             last |-> [budget_code |-> "", budget_name |-> "", capex_opex |-> "",
                       scenario |-> "", year |-> "", well_formed |-> FALSE]]

\* The tables an import can find: empty, or what an earlier import of one
\* plan row left.
CsvTables ==
    { [budget_items |-> {}, scenarios |-> {}, plan_entries |-> {}],
      [budget_items |-> {[id |-> 1, code |-> "A", name |-> "N", map_attribute |-> "",
                          created_at |-> 1]},
       scenarios |-> {[id |-> 1, name |-> "S", year |-> 2024]},
       plan_entries |-> {NewPlan({}, 2024, 1, 100, 1, 1)}] }

InitCsv ==
    /\ \E t \in CsvTables :
          /\ budget_items = t.budget_items
          /\ scenarios = t.scenarios
          /\ plan_entries = t.plan_entries
    /\ expenses = {}
    /\ run = CsvIdle
    /\ ret = NoReturn
    /\ purchase_form_status_ext = {}

\* import_csv is called with a file of n data rows.
BeginCsv(n) ==
    /\ run.state # "running"
    /\ run' = [CsvIdle EXCEPT !.kind = "csv", !.state = "running", !.total = n,
                              !.plans0 = Cardinality(plan_entries),
                              !.expenses0 = Cardinality(expenses)]
    /\ UNCHANGED <<budget_items, scenarios, plan_entries, expenses, ret, purchase_form_status_ext>>

\* One pass of import_csv's loop.
ImportCsvRecord(row, now) ==
    /\ Running("csv")
    /\ \E eff \in CsvRowEffects(row, now) :
          /\ budget_items' = eff.budget_items
          /\ scenarios' = eff.scenarios
          /\ plan_entries' = eff.plan_entries
          /\ expenses' = eff.expenses
          /\ run' = [Counted(run, eff) EXCEPT
                        !.created_items =
                            @ \cup ({i.id : i \in eff.budget_items} \ {i.id : i \in budget_items}),
                        !.created_scenarios =
                            @ \cup ({s.id : s \in eff.scenarios} \ {s.id : s \in scenarios}),
                        !.last = Digest(row)]
    /\ UNCHANGED <<ret, purchase_form_status_ext>>

NextCsv ==
    \/ \E n \in 1..MaxRows : run.state = "idle" /\ BeginCsv(n)
    \/ \E row \in Rows, now \in Times : ImportCsvRecord(row, now)
    \/ ReturnSummary

SpecCsv == InitCsv /\ [][NextCsv]_vars

\* One run of import_csv with a file one row longer.
NextCsvRun ==
    \/ run.state = "idle" /\ BeginCsv(MaxRows + 1)
    \/ \E row \in Rows, now \in Times : ImportCsvRecord(row, now)
    \/ ReturnSummary

SpecCsvRun == InitCsv /\ [][NextCsvRun]_vars

(***************************************************************************)
(* Deletions next to imports and cleanups (app/routers/budget_items.py,    *)
(* app/routers/scenarios.py).                                              *)
(***************************************************************************)
\* A variant of DeleteBudgetItem for child rows whose budget_item_id could be
\* left as it is.
DeleteBudgetItemUnchecked(item_id) ==
    LET found == {i \in budget_items : i.id = item_id}
        Returns(status) == ret' = [op |-> "delete_budget_item", status |-> status,
                                   id |-> item_id, count |-> 0, args |-> <<>>]
    IN  /\ run.state # "running"
        /\ IF found = {}
           THEN Returns("404") /\ UNCHANGED budget_items
           ELSE Returns("204") /\ budget_items' = budget_items \ found
        /\ UNCHANGED <<scenarios, plan_entries, expenses, run, purchase_form_status_ext>>

\* DELETE /budget-items/{item_id} by an admin.  BudgetItem.plans and
\* BudgetItem.expenses are relationships without a delete cascade: on
\* session.delete(item) the unit of work sets the budget_item_id of every
\* child row to NULL, which the NOT NULL columns of plan_entries and expenses
\* refuse: session.commit() raises IntegrityError and nothing is written.
DeleteBudgetItem(item_id) ==
    LET found == {i \in budget_items : i.id = item_id}
        children == {p \in plan_entries : p.budget_item_id = item_id}
                    \cup {e \in expenses : e.budget_item_id = item_id}
        Returns(status) == ret' = [op |-> "delete_budget_item", status |-> status,
                                   id |-> item_id, count |-> 0, args |-> <<>>]
    IN  /\ run.state # "running"
        /\ IF found = {}
           THEN Returns("404") /\ UNCHANGED budget_items
           ELSE IF children # {}
           THEN Returns("IntegrityError") /\ UNCHANGED budget_items
           ELSE Returns("204") /\ budget_items' = budget_items \ found
        /\ UNCHANGED <<scenarios, plan_entries, expenses, run, purchase_form_status_ext>>

IntegrityRows ==
    { [type |-> c[1], budget_code |-> c[2], budget_name |-> "N", map_attribute |-> "",
       capex_opex |-> "", scenario |-> c[3], year |-> "2024",
       month |-> IF c[1] = "plan" THEN "1" ELSE "",
       amount |-> "100",
       date |-> IF c[1] = "plan" THEN "" ELSE "2024-01-15",
       out_of_budget |-> IF c[1] = "plan" THEN "" ELSE "false", description |-> ""]
      : c \in {<<"plan", "A", "S">>, <<"plan", "B", "T">>,
               <<"expense", "A", "T">>, <<"expense", "B", "S">>} }

NextIntegrity ==
    \/ \E n \in 1..MaxRows :
           /\ Entries = 0
           /\ \A i \in budget_items : i.id + 2 <= MaxId
           /\ \A s \in scenarios : s.id + 2 <= MaxId
           /\ BeginImport("csv", n)
    \/ \E row \in IntegrityRows : ImportCsvRow(row, 1)
    \/ ReturnSummary
    \/ \E request \in {r \in CleanupRequests : ~r.clear_imported_only} :
           PerformCleanup(request)
    \/ \E scenario_id \in 1..2, cascade_delete \in BOOLEAN :
           DeleteScenario(scenario_id, cascade_delete, FALSE)
    \/ \E scenario_id \in 1..2, confirm \in BOOLEAN : HardDeleteScenario(scenario_id, confirm)
    \/ \E item_id \in 1..2 : DeleteBudgetItem(item_id)

SpecIntegrity == Init /\ [][NextIntegrity]_vars

(***************************************************************************)
(* Claims about the ingestion engine, checked under Spec.                  *)
(***************************************************************************)

\* C1: in every import entry point a failing record never aborts the run: an
\* import call that has started on its records does not end by raising, so
\* every later record is still processed and an ImportSummary is returned.
C1_FailingRecordNeverAborts == run.pos > 0 => run.state # "raised"

\* C2: a CSV row of type plan or expense whose amount is negative is skipped:
\* skipped_rows goes up by one, imported_plans and imported_expenses stay, and
\* no PlanEntry or Expense row is created for it.
C2_NegativeAmountIsSkipped ==
    [][\A row \in Rows, now \in Times :
         ( /\ ImportCsvRow(row, now)
           /\ row.type \in {"plan", "expense"}
           /\ row.amount \in FloatTexts
           /\ FloatOf(row.amount) < 0 )
         => ( /\ run'.skipped_rows = run.skipped_rows + 1
              /\ run'.imported_plans = run.imported_plans
              /\ run'.imported_expenses = run.imported_expenses
              /\ plan_entries' = plan_entries
              /\ expenses' = expenses )]_vars

\* C3: when the engine skips a record (skipped_rows goes up by one), every
\* write made for that record is rolled back: the BudgetItem, Scenario,
\* PlanEntry and Expense tables after the record are those before it.
C3_SkippedRecordLeavesNoWrites ==
    [][(run'.pos = run.pos + 1 /\ run'.skipped_rows = run.skipped_rows + 1)
         => ( /\ budget_items' = budget_items
              /\ scenarios' = scenarios
              /\ plan_entries' = plan_entries
              /\ expenses' = expenses )]_vars

(***************************************************************************)
(* Claims about the resolvers, checked under SpecBudgetItem and            *)
(* SpecScenario.                                                           *)
(***************************************************************************)

\* C4: the Budget Item Resolver is idempotent: when a call that returned an
\* item is followed by a call with the same code and the same inputs, the
\* second call returns the same item, changes no stored row and leaves exactly
\* one row with that code; and no two BudgetItem rows ever share a code.
C4_ResolverIdempotent ==
    [][ /\ ( /\ ret.op = "_ensure_budget_item" /\ ret.status = "ok"
             /\ ret'.op = "_ensure_budget_item" /\ ret'.args = ret.args )
           => ( /\ ret'.status = "ok"
                /\ ret'.id = ret.id
                /\ budget_items' = budget_items
                /\ Cardinality({i \in budget_items' : i.code = ret.args[1]}) = 1 )
        /\ \A i, j \in budget_items' : i.code = j.code => i = j ]_vars

\* C5: in every reachable state there is at most one Scenario row per
\* (name, year) pair.
C5_OneScenarioPerNameYear ==
    \A s, t \in scenarios : (s.name = t.name /\ s.year = t.year) => s = t

\* C6: an unnamed resolution for year Y returns the scenario named
\* "Default Y" of year Y, and that scenario is the only one of this name
\* and year.
C6_UnnamedResolvesToDefault ==
    \A y \in ScenarioYears :
        (ret.op = "_get_or_create_scenario" /\ ret.args = <<"", ToString(y)>>)
        => /\ \E s \in scenarios :
                s.id = ret.id /\ s.year = y /\ s.name = DefaultScenarioName(y)
           /\ Cardinality({s \in scenarios :
                s.year = y /\ s.name = DefaultScenarioName(y)}) = 1

(***************************************************************************)
(* Claims about the aggregators, checked under SpecReport.                 *)
(***************************************************************************)
ReportYears == {2024, 2025}

Amounts(rows) == SumOf([r \in rows |-> r.amount], rows)

\* The MonthlyAggregate of month m in a monthly list.
MonthOf(monthly, m) ==
    monthly[CHOOSE i \in DOMAIN monthly : monthly[i].month = m]

\* C7: for every year, in an unfiltered Monthly Aggregate the planned of each
\* returned month is the sum of amount over all PlanEntry rows of that year
\* and month (rows of one budget item and month are added), the planned over
\* the returned months sum to the amounts of all PlanEntry rows of the year,
\* and the actual sum to the amounts of the recorded, in-budget Expense rows
\* dated in the year.
C7_MonthlyTotalsMatchRows ==
    \A y \in ReportYears :
        LET monthly == ComputeMonthlySummary(plan_entries, expenses, y, None, None, None)
            total == Totalize(monthly)
        IN  /\ total[1] = Amounts({p \in plan_entries : p.year = y})
            /\ total[2] = Amounts({e \in expenses :
                              e.year = y /\ e.status = RECORDED /\ ~e.is_out_of_budget})
            /\ \A i \in DOMAIN monthly :
                  monthly[i].planned =
                      Amounts({p \in plan_entries : p.year = y /\ p.month = monthly[i].month})

\* Two imported plan rows of 100 and 50 for one code, year 2024 and month 1
\* are in the scenario "Default 2024", and month 1 reports planned = 150.
C7_Witness ==
    /\ run.kind = "csv" /\ run.state = "returned" /\ run.imported_plans = 2
    /\ \E p, q \in plan_entries :
          /\ p.amount = 100 /\ q.amount = 50
          /\ p.budget_item_id = q.budget_item_id
          /\ p.year = 2024 /\ q.year = 2024 /\ p.month = 1 /\ q.month = 1
          /\ p.scenario_id = q.scenario_id
          /\ \E s \in scenarios : s.id = p.scenario_id /\ s.name = "Default 2024"
    /\ MonthOf(ComputeMonthlySummary(plan_entries, expenses, 2024, None, None, None),
               1).planned = 150

\* C8: no cancelled and no out-of-budget expense contributes to a month's
\* actual: for every expense and every scope that holds it, the actual of its
\* month with the expense cancelled, or out of budget, or both, is the actual
\* with the expense recorded and in budget less its amount; and taking a
\* cancelled or out-of-budget expense away changes no actual.
C8_ExcludedExpensesNeverCount ==
    \A e \in expenses :
      \A scenario_id \in {None, e.scenario_id}, budget_item_id \in {None, e.budget_item_id},
         month \in {None, e.month} :
        LET With(status, flag) ==
                (expenses \ {e}) \cup {[e EXCEPT !.status = status, !.is_out_of_budget = flag]}
            ActualOf(exps) ==
                MonthOf(ComputeMonthlySummary(plan_entries, exps, e.year, scenario_id,
                                              budget_item_id, month), e.month).actual
            counted == ActualOf(With(RECORDED, FALSE))
        IN  /\ ActualOf(With(CANCELLED, FALSE)) = counted - e.amount
            /\ ActualOf(With(RECORDED, TRUE)) = counted - e.amount
            /\ ActualOf(With(CANCELLED, TRUE)) = counted - e.amount
            /\ (e.status = CANCELLED \/ e.is_out_of_budget)
                  => ActualOf(expenses) = ActualOf(expenses \ {e})

\* A month holds a counted expense next to an out-of-budget one, and its
\* actual is the amount of the counted one alone.
C8_Witness ==
    \E e, x \in expenses :
        /\ e.status = RECORDED /\ ~e.is_out_of_budget /\ e.amount > 0
        /\ x.status = RECORDED /\ x.is_out_of_budget /\ x.amount > 0
        /\ e.year = x.year /\ e.month = x.month
        /\ MonthOf(ComputeMonthlySummary(plan_entries, expenses, e.year, None, None, None),
                   e.month).actual = e.amount

\* C9: for every year and scope the Quarterly Aggregator returns the four
\* quarters 1..4, and the planned, the actual and the saving of quarter q are
\* the sums of the Monthly Aggregate's planned, actual and saving over the
\* months 3q-2, 3q-1 and 3q.
C9_QuarterIsSumOfItsMonths ==
    \A y \in ReportYears, scenario_id \in {None} \cup {s.id : s \in scenarios},
       budget_item_id \in {None} \cup {i.id : i \in budget_items} :
        LET quarterly == ComputeQuarterlySummary(plan_entries, expenses, y, scenario_id,
                                                 budget_item_id)
            monthly == ComputeMonthlySummary(plan_entries, expenses, y, scenario_id,
                                             budget_item_id, None)
        IN  /\ Len(quarterly) = 4
            /\ \A q \in 1..4 :
                  LET of == {i \in DOMAIN monthly : monthly[i].month \in (3 * q - 2)..(3 * q)}
                  IN  /\ quarterly[q].quarter = q
                      /\ quarterly[q].planned = SumOf([i \in of |-> monthly[i].planned], of)
                      /\ quarterly[q].actual = SumOf([i \in of |-> monthly[i].actual], of)
                      /\ Saving(quarterly[q]) = SumOf([i \in of |-> Saving(monthly[i])], of)

\* A plan in month 3 and a counted expense in month 1: the first quarter
\* gathers both months, and its saving is the one less the other.
C9_Witness ==
    \E p \in plan_entries, e \in expenses :
        /\ p.year = 2024 /\ p.month = 3 /\ p.amount > 0
        /\ e.year = 2024 /\ e.month = 1 /\ IsActual(e) /\ e.amount > 0
        /\ LET first == ComputeQuarterlySummary(plan_entries, expenses, 2024, None, None)[1]
           IN  /\ first.planned = p.amount
               /\ first.actual = e.amount
               /\ Saving(first) = p.amount - e.amount

(***************************************************************************)
(* Claims about the cleanup, checked under SpecCleanup.                    *)
(***************************************************************************)

\* The codes of a table are exactly SK01 .. SK<N>, without a duplicate, the
\* item at place k of the order (created_at, id) holding SK<k>.
Dense(items) ==
    LET before(i) == {j \in items :
                        \/ j.created_at < i.created_at
                        \/ j.created_at = i.created_at /\ j.id < i.id}
    IN  /\ {i.code : i \in items} = {ExpectedCode(k) : k \in 1..Cardinality(items)}
        /\ \A i, j \in items : i.code = j.code => i = j
        /\ \A i \in items : i.code = ExpectedCode(1 + Cardinality(before(i)))

C11_CleanupIsAtomic ==
    [][ret'.op = "perform_cleanup"
       => /\ ret'.status # "ok"
               => /\ expenses' = expenses
                  /\ plan_entries' = plan_entries
                  /\ budget_items' = budget_items
          /\ (ret'.status = "ok" /\ ret'.args[1] = "TRUE") => Dense(budget_items')
          /\ (ret'.status = "ok" /\ ret'.args[1] = "FALSE")
               => budget_items' = budget_items /\ plan_entries' = plan_entries]_vars

\* A cleanup with reset_plans failed on the temporary code of item 1, after
\* its statements had deleted the imported expense of item 1 and renamed
\* nothing yet: the expense and the codes are still there.
C11_Witness ==
    /\ ret.op = "perform_cleanup" /\ ret.status = "IntegrityError"
    /\ \E e \in expenses : e.budget_item_id = 1 /\ IsImported(e.description)
    /\ \E i, j \in budget_items :
          i.id = 1 /\ i.code = "A" /\ j.code = TemporaryCode(i)

\* A budget item that a plan entry or an expense of the given tables refers to
IsReferenced(item, plans, exps) ==
    \/ \E p \in plans : p.budget_item_id = item.id
    \/ \E e \in exps : e.budget_item_id = item.id

\* C12: after every completed cleanup, whatever its budget_item_id,
\* scenario_id, clear_imported_only and reset_plans options, no budget item
\* without a referencing plan entry and without a referencing expense remains,
\* and no budget item that a remaining plan entry or expense refers to has
\* been deleted.
C12_NoOrphanRemains ==
    [][(ret'.op = "perform_cleanup" /\ ret'.status = "ok")
       => /\ \A i \in budget_items' : IsReferenced(i, plan_entries', expenses')
          /\ \A i \in budget_items :
                IsReferenced(i, plan_entries', expenses')
                => \E j \in budget_items' : j.id = i.id]_vars

\* C12 (amended): after every completed cleanup with reset_plans, whatever
\* its other options, no budget item without a referencing plan entry and
\* without a referencing expense remains; after every completed cleanup,
\* with or without reset_plans, no budget item that a remaining plan entry or
\* expense refers to has been deleted.  (Without reset_plans the budget items
\* are left as they are, orphans included.)
C12_OrphansGoWithResetPlans ==
    [][(ret'.op = "perform_cleanup" /\ ret'.status = "ok")
       => /\ ret'.args[1] = "TRUE"
               => \A i \in budget_items' : IsReferenced(i, plan_entries', expenses')
          /\ \A i \in budget_items :
                IsReferenced(i, plan_entries', expenses')
                => \E j \in budget_items' : j.id = i.id]_vars

\* A completed cleanup with reset_plans deleted item 1, which nothing referred
\* to any more, and kept item 2, which a plan entry refers to.
C12_Witness ==
    /\ ret.op = "perform_cleanup" /\ ret.status = "ok" /\ ret.args[1] = "TRUE"
    /\ {i.id : i \in budget_items} = {2}
    /\ \E p \in plan_entries : p.budget_item_id = 2
    /\ expenses = {}

(***************************************************************************)
(* Claims about the purchase reminders, checked under SpecReminders.       *)
(***************************************************************************)

\* C13: for a year, a month and an optional scenario, list_purchase_reminders
\* flags a budget item if and only if it has a plan entry with amount > 0 in
\* exactly that year and month (and scenario, when given) and no recorded
\* expense of that item is dated in that year and month (in that scenario,
\* when given).
C13_FlaggedIffPlannedAndNotBought ==
    [][(ret'.op = "list_purchase_reminders" /\ ret' # ret)
       => LET year == ret'.args[1]
              month == ret'.args[2]
              scenario_id == ret'.args[3]
              flagged == ret'.args[4]
          IN  /\ ret'.status = "ok"
              /\ \A i \in budget_items :
                    i.id \in flagged
                    <=> /\ \E p \in plan_entries :
                              /\ p.budget_item_id = i.id /\ p.amount > 0
                              /\ p.year = year /\ p.month = month
                              /\ scenario_id # None => p.scenario_id = scenario_id
                        /\ ~\E e \in expenses :
                              /\ e.budget_item_id = i.id /\ e.status = RECORDED
                              /\ e.year = year /\ e.month = month
                              /\ scenario_id # None => e.scenario_id = scenario_id]_vars

\* The form-prepared status of the key of a mark-prepared item
IsFormPrepared(table, item) ==
    \E row \in table : /\ row.year = item.year /\ row.month = item.month
                       /\ row.is_form_prepared

\* C14: the form-prepared status is sticky: false for a key never marked; a
\* call of mark-prepared with true for a key sets it to true; and it changes
\* in no step other than a mark-prepared call for that key, whatever cleanups,
\* scenario deletions and expense or plan changes come between.
C14_FormPreparedIsSticky ==
    [][/\ \A item \in PurchaseReminderUpdates :
             IsFormPrepared(purchase_form_status_ext', item)
                # IsFormPrepared(purchase_form_status_ext, item)
             => /\ ret'.op = "mark_purchase_forms_prepared"
                /\ \E k \in DOMAIN ret'.args :
                      ret'.args[k].year = item.year /\ ret'.args[k].month = item.month
       /\ (ret'.op = "mark_purchase_forms_prepared" /\ ret' # ret)
             => \A k \in DOMAIN ret'.args :
                   (\A l \in DOMAIN ret'.args : l <= k)
                   => IsFormPrepared(purchase_form_status_ext', ret'.args[k])
                         = ret'.args[k].is_form_prepared]_vars

(***************************************************************************)
(* Claims about the dashboard.                                             *)
(***************************************************************************)

C16_RiskyItemsAreTheTopFive ==
    ret.op = "get_risky_budget_items"
    => LET rows == ret.args[3]
           result == ret.args[4]
           Qualifies(r) == r.plan > 0 /\ 5 * r.actual >= 4 * r.plan
           returned == {result[k] : k \in DOMAIN result}
       IN  /\ returned \subseteq {r \in rows : Qualifies(r)}
           /\ \A j, k \in DOMAIN result : result[j] = result[k] => j = k
           /\ \A k \in 1..(Len(result) - 1) :
                 result[k].actual * result[k + 1].plan
                    >= result[k + 1].actual * result[k].plan
           /\ Len(result) <= 5
           /\ \A r \in rows :
                 (Qualifies(r) /\ r \notin returned)
                 => /\ Len(result) = 5
                    /\ \A k \in DOMAIN result :
                          r.actual * result[k].plan <= result[k].actual * r.plan

\* Six items qualify and five are returned, from a ratio of 1.2 down to 0.8;
\* the item left out stands at 0.8 as well.
C16_Witness ==
    /\ ret.op = "get_risky_budget_items"
    /\ Len(ret.args[4]) = 5
    /\ ret.args[4][1].actual = 120 /\ ret.args[4][5].actual = 80
    /\ \E r \in ret.args[3] :
          /\ r.plan = 100 /\ r.actual = 80
          /\ \A k \in DOMAIN ret.args[4] : ret.args[4][k] # r

\* C17: every item get_overbudget returns has over = max(actual - plan, 0),
\* which is not negative, and over_pct = over / plan * 100 when plan > 0 and 0
\* otherwise; the items are ordered by over non-increasing, and
\* summary.over_total is the sum of the returned items' over.
C17_OverbudgetItems ==
    ret.op = "get_overbudget"
    => LET items == ret.args[2].items
           summary == ret.args[2].summary
       IN  /\ \A k \in DOMAIN items :
                 LET item == items[k] IN
                 /\ item.over >= 0
                 /\ item.actual - item.plan > 0 => item.over = item.actual - item.plan
                 /\ item.actual - item.plan <= 0 => item.over = 0
                 /\ item.plan > 0
                       => item.over_pct.num * item.plan
                             = item.over * 100 * item.over_pct.den
                 /\ item.plan <= 0 => item.over_pct.num = 0
                 /\ item.over_pct.den > 0
           /\ \A k \in 1..(Len(items) - 1) : items[k].over >= items[k + 1].over
           /\ summary.over_total =
                 SumOf([k \in DOMAIN items |-> items[k].over], DOMAIN items)

\* An overbudget list with an item that spent 120 without a plan (over 120,
\* over_pct 0) before an item that spent 120 on a plan of 100 (over 20,
\* over_pct 20), which add up to the over_total.
C17_Witness ==
    /\ ret.op = "get_overbudget" /\ ret.args[1] = ""
    /\ Len(ret.args[2].items) >= 2
    /\ ret.args[2].items[1].plan = 0 /\ ret.args[2].items[1].over = 120
    /\ ret.args[2].items[1].over_pct.num = 0
    /\ ret.args[2].items[2].plan = 100 /\ ret.args[2].items[2].over = 20
    /\ ret.args[2].items[2].over_pct = [num |-> 2000, den |-> 100]
    /\ ret.args[2].summary.over_total >= 140

(***************************************************************************)
(* Claims about the headers and the numbers of the importer.               *)
(***************************************************************************)

\* C18: import_csv recognises its columns whatever the case and punctuation
\* of the headers: a line under the titled headers ("Type", "Budget Code",
\* "Map-Nitelik", ...) has the effect the same line has under the canonical
\* headers, so a returned import of such a file has imported every plan and
\* expense line (none of the model's lines is invalid) and its budget item
\* carries the map attribute a line gave.
C18_TitledHeadersImportAlike ==
    /\ Running("csv_titled")
          => \A row \in HeaderRows :
                CsvDictRowEffects(DictRow("titled", row), 1)
                   = CsvDictRowEffects(DictRow("canonical", row), 1)
    /\ (run.kind = "csv_titled" /\ run.state = "returned")
          => /\ run.skipped_rows = 0
             /\ run.imported_plans + run.imported_expenses = run.total
             /\ \E item \in budget_items : item.code = "A"

\* Under the titled headers every line of it is skipped and nothing is stored.
C18_TitledFileSkipped ==
    /\ run.kind = "csv_titled" /\ run.state = "returned" /\ run.total = 2
    /\ run.imported_plans = 0 /\ run.imported_expenses = 0 /\ run.skipped_rows = 2
    /\ budget_items = {} /\ plan_entries = {} /\ expenses = {}

\* C19: the numeric coercion of a text that is a number with one separator
\* reads "," as the decimal point when the text has no ".", and "." as the
\* decimal point when it has no ","; of a text with both separators it gives
\* the intended number in both conventions: 1234.56 for "1.234,56" and
\* 1234.56 for "1,234.56".
C19_SeparatorsReadAsIntended ==
    ret.op \in Coercers
    => LET value == ret.args[1]
           outcome == ret.args[2]
           Is(num, den) == outcome.status = "ok" /\ outcome.num * den = num * outcome.den
           pointed == ParseFloat(Replace(value, ",", <<".">>))
       IN  /\ (value \notin {GroupedComma, GroupedDot} /\ pointed.status = "ok"
               /\ ~(Contains(value, ",") /\ Contains(value, ".")))
                 => Is(pointed.num, pointed.den)
           /\ value = GroupedComma => Is(123456, 100)
           /\ value = GroupedDot => Is(123456, 100)

\* What the coercers make of the texts of the claim: the validators read
\* "1,234.56" as 1.23456, and _coerce_float refuses "1,5".
C19_Misread ==
    \/ /\ ret.op = "validate_non_negative" /\ ret.args[1] = GroupedDot
       /\ ret.args[2] = [status |-> "ok", num |-> 123456, den |-> 100000]
    \/ /\ ret.op = "_coerce_float" /\ ret.args[1] = <<"1", ",", "5">>
       /\ ret.status = "ValueError"

\* C20: after any sequence of expense creates, expense updates and imports
\* every persisted Expense has an amount that is not negative (the model keeps
\* the amount of the three numeric fields), and an operation that supplies a
\* negative amount leaves the stored expenses as they were.
C20_NegativeValueNeverStored ==
    /\ [](\A e \in expenses : e.amount >= 0)
    /\ [][/\ (\E row \in ExpenseRows, now \in ReportTimes :
                 /\ ImportCsvRow(row, now)
                 /\ row.amount \in FloatTexts
                 /\ FloatOf(row.amount) < 0) => expenses' = expenses
          /\ (ret' # ret /\ ret'.op \in {"create_expense", "update_expense"}
                /\ ret'.args # <<>> /\ ret'.args[1] < 0)
               => (expenses' = expenses /\ ret'.status # "committed")]_vars

\* An import has left an expense with a negative amount in the table.
C20_NegativeExpenseStored ==
    /\ run.state = "returned" /\ run.kind = "csv"
    /\ \E e \in expenses : e.amount < 0

(***************************************************************************)
(* Claims about import_json's dispatch, checked under SpecJson.            *)
(***************************************************************************)

\* The payloads whose shape is not recognized: text that is not valid JSON, or
\* a value that is neither an object with "plans", nor a list, nor an object
\* with "year" and "items".
Unrecognized(payload) ==
    \/ ~payload.valid
    \/ /\ ~(payload.type = "dict" /\ "plans" \in payload.keys)
       /\ payload.type # "list"
       /\ ~(payload.type = "dict" /\ {"year", "items"} \subseteq payload.keys)

\* C21: an upload whose shape is not recognized aborts the whole import with
\* an error (400): no import run is begun and no BudgetItem, Scenario,
\* PlanEntry or Expense row is persisted.
C21_UnrecognizedShapeAborts ==
    [][\A payload \in {p \in JsonPayloads : Unrecognized(p)} :
       \A header \in JsonHeaders(payload), n \in JsonLengths(payload) :
         ImportJson(payload, header, n)
         => /\ ret'.op = "import_json" /\ ret'.status = "400"
            /\ run' = run
            /\ budget_items' = budget_items /\ scenarios' = scenarios
            /\ plan_entries' = plan_entries /\ expenses' = expenses]_vars

\* An object without the keys import_json reads has been refused after an
\* earlier import had stored a plan entry.
C21_Witness ==
    /\ ret.op = "import_json" /\ ret.status = "400" /\ ret.args = <<"unsupported">>
    /\ plan_entries # {}
    /\ run.state = "returned"

(***************************************************************************)
(* Claims about the pivot layout, checked under SpecSheet.                 *)
(***************************************************************************)

\* The plan columns of the two sheets as the claim reads their headers:
\* "Mart 26" is month 3 of 2026 and "Nis 2026" month 4 of 2026; "Harcama Mart
\* 26" matches an expense keyword and "Genel Toplam" is a total column.
PlanColumnsOf(headers) ==
    IF headers = SheetA
    THEN {[index |-> 2, month |-> 3, year |-> 2026], [index |-> 4, month |-> 4, year |-> 2026]}
    ELSE {[index |-> 3, month |-> 3, year |-> 2026]}

\* C22: in a pivot-layout sheet each data row produces exactly one PlanEntry
\* per month column that is recognized as a plan column and whose cell is
\* non-blank and non-zero, with the month and the year of the header (header
\* "Mart 26" gives month 3 of 2026) and the amount of the cell, under the
\* budget item whose code is derived from the row's name.
C22_OnePlanPerMonthColumn ==
    [][\A headers \in Sheets : \A row \in SheetRows(headers) :
         ( /\ ret.op = "import_xlsx" /\ ret.args = <<headers>>
           /\ ImportSheetRow(row, 1)
           /\ row[1] \notin {"Genel Toplam", "Total"} )
         => LET added == plan_entries' \ plan_entries
                filled == {c \in PlanColumnsOf(headers) :
                              c.index <= Len(row) /\ row[c.index] \notin {"", "0"}}
            IN  /\ Cardinality(added) = Cardinality(filled)
                /\ \A c \in filled : \E p \in added :
                      /\ p.month = c.month /\ p.year = c.year
                      /\ p.amount = FloatOf(row[c.index])
                      /\ \E i \in budget_items' :
                            i.id = p.budget_item_id /\ i.code = NormalizeCode(row[1])]_vars

\* The row "Router (10 Adet)" with 100 under "Mart 26" has been imported:
\* one plan entry of month 3 of 2026 under the code derived from the name.
C22_Witness ==
    /\ ret.op = "import_xlsx" /\ run.kind = "xlsx_sheet" /\ run.pos = 1
    /\ \E p \in plan_entries, i \in budget_items :
          /\ p.month = 3 /\ p.year = 2026 /\ p.amount = 100
          /\ i.id = p.budget_item_id /\ i.code = "ROUTER_10_ADET"
    /\ Cardinality(plan_entries) = 1

(***************************************************************************)
(* More claims about the Budget Item Resolver, checked under               *)
(* SpecBudgetItem.                                                         *)
(***************************************************************************)

\* C23: when the Budget Item Resolver finds an existing item, a field (name,
\* map attribute) changes only if a non-empty input that differs from the
\* stored value was supplied, and then to that input; a field whose input is
\* empty keeps its stored value and no stored value becomes null; the item
\* keeps its code and its id, and no other item changes.  When the call
\* returns the item, every non-empty input is the stored value afterwards.
C23_ResolverPatchesOnlySuppliedFields ==
    [][\A old \in budget_items :
         (ret'.op = "_ensure_budget_item" /\ ret'.args[1] = old.code)
         => \E new \in budget_items' :
               /\ new.id = old.id /\ new.code = old.code
               /\ new.created_at = old.created_at
               /\ new.name # old.name
                    => Truthy(ret'.args[2]) /\ new.name = ret'.args[2]
               /\ new.map_attribute # old.map_attribute
                    => Truthy(ret'.args[3]) /\ new.map_attribute = ret'.args[3]
               /\ Truthy(old.name) => Truthy(new.name)
               /\ Truthy(old.map_attribute) => Truthy(new.map_attribute)
               /\ ret'.status = "ok"
                    => /\ ret'.id = old.id
                       /\ Truthy(ret'.args[2]) => new.name = ret'.args[2]
                       /\ Truthy(ret'.args[3]) => new.map_attribute = ret'.args[3]
               /\ budget_items' \ {new} = budget_items \ {old}]_vars

\* The item A, stored with the name N and the map attribute Hizmet, was
\* resolved with the name M and no map attribute: it is now named M and still
\* has its map attribute.
C23_Witness ==
    /\ ret.op = "_ensure_budget_item" /\ ret.status = "ok"
    /\ ret.args = <<"A", "M", "", "", "">>
    /\ \E i \in budget_items :
          i.id = ret.id /\ i.code = "A" /\ i.name = "M" /\ i.map_attribute = "Hizmet"

(***************************************************************************)
(* Claims about concurrent imports, checked under SpecRace.                *)
(***************************************************************************)

\* C24: when two imports run concurrently and each holds a record naming the
\* same brand-new budget code A, every interleaving ends with exactly one
\* BudgetItem for A; no import is aborted; at most one import loses the race,
\* it counts only its record naming A as skipped, and every other record of
\* both imports is imported (one PlanEntry each).
C24_RaceCostsOneRecord ==
    /\ \A i, j \in budget_items : i.code = j.code => i = j
    /\ \A w \in Workers : run[w].state # "raised"
    /\ (\A w \in Workers : run[w].state = "returned")
         => /\ Cardinality({i \in budget_items : i.code = "A"}) = 1
            /\ \A w \in Workers :
                  /\ run[w].imported_plans + run[w].skipped_rows = Len(run[w].file)
                  /\ \A k \in run[w].skipped_at : run[w].file[k] = "A"
            /\ run[1].skipped_rows + run[2].skipped_rows <= 1
            /\ Cardinality(plan_entries) = run[1].imported_plans + run[2].imported_plans

\* Both requests have ended, and one of them met the other's budget item A at
\* its INSERT.
C24_Witness ==
    /\ \A w \in Workers : run[w].state \in {"returned", "raised"}
    /\ \E w \in Workers :
          \/ run[w].skipped_at # {}
          \/ run[w].state = "raised"
    /\ Cardinality({i \in budget_items : i.code = "A"}) = 1

(***************************************************************************)
(* Claims about the dashboard reminders, checked under SpecInsights.       *)
(***************************************************************************)

\* The months the claim expects a warning for, in the order of the input
ExpectedWarnings(year, today, monthly) ==
    SelectSeq(monthly,
        LAMBDA entry : /\ year <= today.year
                       /\ entry.month <= (IF year = today.year THEN today.month ELSE 12)
                       /\ entry.planned > 0 /\ entry.actual = 0)

\* C25: build_dashboard_reminders emits a missing-invoice warning for a month
\* exactly when the year is not in the future, the month is not after the
\* cutoff, planned > 0 and actual = 0; it emits at most 3 of them, the first
\* in the order of the monthly input, and none for a future year.
C25_MissingInvoiceWarnings ==
    ret.op = "build_dashboard_reminders"
    => LET expected == ExpectedWarnings(ret.args[1], ret.args[2], ret.args[3])
           warnings == ret.args[4]
       IN  /\ Len(warnings) = (IF Len(expected) < 3 THEN Len(expected) ELSE 3)
           /\ \A k \in DOMAIN warnings : warnings[k] = expected[k].month
           /\ ret.args[1] > ret.args[2].year => warnings = <<>>

\* build_dashboard_reminders was called for the current year with a planned
\* month without spending before the cutoff, and no warning came back.
C25_NoWarning ==
    /\ ret.op = "build_dashboard_reminders" /\ ret.status = "ImportError"
    /\ ret.args[1] = ret.args[2].year
    /\ ExpectedWarnings(ret.args[1], ret.args[2], ret.args[3]) # <<>>
    /\ ret.args[4] = <<>>

(***************************************************************************)
(* Claims about the resequencer's single updates, checked under            *)
(* SpecResequence.                                                         *)
(***************************************************************************)

Stored ==
    {[budget_item_id |-> p.budget_item_id, scenario_id |-> p.scenario_id] :
        p \in (plan_entries' \ plan_entries) \cup (expenses' \ expenses)}

\* C27: within one import run a created entity is visible to every later
\* record: a later record of the run that names the code of a BudgetItem the
\* run created (or the name and year of a Scenario it created, the default
\* scenario for a record without a name) resolves to that same row, creates no
\* second row, and succeeds even when it omits the budget name.
C27_CreatedEntityVisibleLater ==
    [][(run.kind = "csv" /\ run'.pos = run.pos + 1)
         => LET row == run'.last IN
            /\ \A i \in budget_items :
                 (i.id \in run.created_items /\ i.code = row.budget_code)
                 => /\ {k.id : k \in {k \in budget_items' : k.code = i.code}} = {i.id}
                    /\ row.well_formed
                         => /\ run'.skipped_rows = run.skipped_rows
                            /\ \E e \in Stored : e.budget_item_id = i.id
            /\ \A s \in scenarios :
                 ( /\ s.id \in run.created_scenarios
                   /\ row.well_formed /\ IntOf(row.year) = s.year
                   /\ s.name = IF Truthy(row.scenario) THEN row.scenario
                               ELSE DefaultScenarioName(s.year) )
                 => /\ {k.id : k \in {k \in scenarios' : k.name = s.name /\ k.year = s.year}}
                          = {s.id}
                    /\ \A e \in Stored : e.scenario_id = s.id]_vars

\* C28: for every CSV import of n data rows, the returned summary satisfies
\* imported_plans + imported_expenses + skipped_rows = n, imported_plans is
\* the number of PlanEntry rows the run added to storage and imported_expenses
\* the number of Expense rows it added (and so after every row, with the
\* number of rows read in place of n).
C28_SummaryCountsEveryRow ==
    run.kind = "csv"
    => /\ run.imported_plans + run.imported_expenses + run.skipped_rows = run.pos
       /\ run.state = "returned" => run.pos = run.total
       /\ run.imported_plans = Cardinality(plan_entries) - run.plans0
       /\ run.imported_expenses = Cardinality(expenses) - run.expenses0
       /\ run.state # "raised"

\* An import of two rows into tables that held a plan returned: one plan
\* imported, one row skipped.
C28_Witness ==
    /\ run.kind = "csv" /\ run.state = "returned" /\ run.total = 2
    /\ run.plans0 = 1 /\ run.imported_plans = 1 /\ run.skipped_rows = 1
    /\ Cardinality(plan_entries) = 2

(***************************************************************************)
(* A claim about the three expense figures of the quarterly summary,       *)
(* checked under SpecReport.                                               *)
(***************************************************************************)

\* C29: in the quarterly summary every expense dated in the year and inside
\* the scenario / budget-item scope is counted in exactly one of actual
\* (recorded, in-budget), out_of_budget (recorded, out-of-budget) and
\* cancelled (cancelled, whatever its out-of-budget flag): each figure of a
\* quarter is the sum of the amounts of its own kind of expense, and the sum
\* over the four quarters of the three figures is the sum of the amounts of
\* all those expenses.
C29_EveryExpenseCountedOnce ==
    \A y \in {e.year : e \in expenses},
       scenario_id \in {None} \cup {e.scenario_id : e \in expenses},
       budget_item_id \in {None} \cup {e.budget_item_id : e \in expenses} :
        LET quarterly == ComputeQuarterlySummary(plan_entries, expenses, y, scenario_id,
                                                 budget_item_id)
            scope == {e \in expenses :
                        /\ e.year = y
                        /\ scenario_id # None => e.scenario_id = scenario_id
                        /\ budget_item_id # None => e.budget_item_id = budget_item_id}
            In(q) == {e \in scope : e.month \in (3 * q - 2)..(3 * q)}
        IN  /\ \A q \in 1..4 :
                  /\ quarterly[q].actual =
                        Amounts({e \in In(q) : e.status = "recorded" /\ ~e.is_out_of_budget})
                  /\ quarterly[q].out_of_budget =
                        Amounts({e \in In(q) : e.status = "recorded" /\ e.is_out_of_budget})
                  /\ quarterly[q].cancelled =
                        Amounts({e \in In(q) : e.status = "cancelled"})
            /\ SumOf([q \in 1..4 |-> quarterly[q].actual + quarterly[q].out_of_budget
                                       + quarterly[q].cancelled], 1..4)
                 = Amounts(scope)

\* A cancelled out-of-budget expense and a recorded out-of-budget expense of
\* the same year: each is counted once, in its own figure.
C29_Witness ==
    /\ \E e, f \in expenses :
          /\ e.year = 2024 /\ e.status = "cancelled" /\ e.is_out_of_budget /\ e.amount > 0
          /\ f.year = 2024 /\ f.status = "recorded" /\ f.is_out_of_budget /\ f.amount > 0
    /\ LET quarterly == ComputeQuarterlySummary(plan_entries, expenses, 2024, None, None)
       IN  SumOf([q \in 1..4 |-> quarterly[q].cancelled], 1..4) > 0

(***************************************************************************)
(* A claim about references between the tables, checked under              *)
(* SpecIntegrity.                                                          *)
(***************************************************************************)

\* Every plan entry and every expense refers to a budget item that exists and,
\* when its scenario reference is set, to a scenario that exists.
ReferentialIntegrity ==
    /\ \A p \in plan_entries :
          /\ \E i \in budget_items : i.id = p.budget_item_id
          /\ \E s \in scenarios : s.id = p.scenario_id
    /\ \A e \in expenses :
          /\ \E i \in budget_items : i.id = e.budget_item_id
          /\ e.scenario_id # None => \E s \in scenarios : s.id = e.scenario_id

\* C30: referential integrity holds in every reachable state: after any
\* sequence of imports, cleanups, scenario deletions (with or without cascade,
\* including hard delete) and budget-item deletions, every PlanEntry and every
\* Expense references a BudgetItem that exists and a Scenario that exists
\* (when its scenario reference is set); a BudgetItem is removed only when no
\* plan and no expense references it, and a scenario delete refused for lack
\* of cascade leaves the state unchanged.
C30_ReferentialIntegrity ==
    /\ []ReferentialIntegrity
    /\ [][ /\ \A i \in budget_items :
                (~\E k \in budget_items' : k.id = i.id)
                => /\ ~\E p \in plan_entries' : p.budget_item_id = i.id
                   /\ ~\E e \in expenses' : e.budget_item_id = i.id
           /\ (ret'.op = "delete_budget_item" /\ run' = run /\ budget_items' # budget_items)
                => /\ ~\E p \in plan_entries : p.budget_item_id = ret'.id
                   /\ ~\E e \in expenses : e.budget_item_id = ret'.id
                   /\ plan_entries' = plan_entries /\ expenses' = expenses
           /\ (ret'.op = "delete_scenario" /\ run' = run /\ ret'.status = "400")
                => /\ budget_items' = budget_items /\ scenarios' = scenarios
                   /\ plan_entries' = plan_entries /\ expenses' = expenses ]_vars

\* A hard delete has removed scenario 1 with its rows, a row of scenario 2
\* keeps budget item 2 from being deleted, and budget item 1, left without
\* rows, has been deleted.
C30_Witness ==
    /\ ret.op = "delete_budget_item" /\ ret.status = "204" /\ ret.id = 1
    /\ ~\E s \in scenarios : s.id = 1
    /\ \E s \in scenarios : s.id = 2
    /\ budget_items # {} /\ \A i \in budget_items : i.id = 2
    /\ Entries = 1

====
